---- MODULE Spec2Model ----
(***************************************************************************)
(* Model of the analysis engine of asset-recommender:                      *)
(*   lib/analysis/technicalIndicators.ts  calculateTechnicalIndicators     *)
(*   lib/analysis/trends.ts               analyzeTrend                     *)
(*   lib/analysis/momentum.ts             calculateMomentumScore           *)
(*   lib/data/yahooFinance.ts             analyzeFundamentals              *)
(*                                                                         *)
(* Numbers.  A JavaScript number is modelled as an extended rational       *)
(* <<n, d>>: d > 0 and gcd(n, d) = 1 for a finite value, <<0, 0>> for NaN, *)
(* <<1, 0>> for +Infinity and <<-1, 0>> for -Infinity.  Arithmetic,        *)
(* comparison, Math.min and Math.max follow IEEE-754 on these values       *)
(* except that finite results are exact (no rounding, no signed zero).     *)
(*                                                                         *)
(* Series.  A PriceData[] is a sequence of bars [close, volume] with       *)
(* integer fields.  date and open are never read by the analysis           *)
(* functions; high and low are read only by the technicalindicators        *)
(* package, whose results are inputs of the model (see `lib`).             *)
(***************************************************************************)
EXTENDS Integers, Sequences, FiniteSets, TLC

----------------------------------------------------------------------------
(* JavaScript numbers *)

AbsInt(i) == IF i < 0 THEN -i ELSE i

RECURSIVE Gcd(_, _)
Gcd(a, b) == IF b = 0 THEN a ELSE Gcd(b, a % b)

Frac(n, d) ==
  LET g == Gcd(AbsInt(n), AbsInt(d))
  IN  IF d < 0 THEN <<(-n) \div g, (-d) \div g>> ELSE <<n \div g, d \div g>>

R(i) == <<i, 1>>
NaN == <<0, 0>>
PosInf == <<1, 0>>
NegInf == <<-1, 0>>

IsNaN(x) == x = NaN
IsFinite(x) == x[2] # 0
IsInf(x) == x = PosInf \/ x = NegInf
SignOf(x) == IF x[1] > 0 THEN 1 ELSE IF x[1] < 0 THEN -1 ELSE 0
InfOfSign(s) == IF s > 0 THEN PosInf ELSE NegInf

Neg(x) == <<-x[1], x[2]>>

Add(x, y) ==
  IF IsNaN(x) \/ IsNaN(y) THEN NaN
  ELSE IF IsInf(x) /\ IsInf(y) THEN (IF x = y THEN x ELSE NaN)
  ELSE IF IsInf(x) THEN x
  ELSE IF IsInf(y) THEN y
  ELSE LET g == Gcd(x[2], y[2])
           l == (x[2] \div g) * y[2]
       IN  Frac(x[1] * (l \div x[2]) + y[1] * (l \div y[2]), l)

Sub(x, y) == Add(x, Neg(y))

Mul(x, y) ==
  IF IsNaN(x) \/ IsNaN(y) THEN NaN
  ELSE IF IsInf(x) \/ IsInf(y)
       THEN (IF SignOf(x) = 0 \/ SignOf(y) = 0 THEN NaN
             ELSE InfOfSign(SignOf(x) * SignOf(y)))
  ELSE LET g1 == Gcd(AbsInt(x[1]), y[2])
           g2 == Gcd(AbsInt(y[1]), x[2])
       IN  Frac((x[1] \div g1) * (y[1] \div g2), (x[2] \div g2) * (y[2] \div g1))

Div(x, y) ==
  IF IsNaN(x) \/ IsNaN(y) THEN NaN
  ELSE IF IsInf(y) THEN (IF IsInf(x) THEN NaN ELSE R(0))
  ELSE IF y[1] = 0
       THEN (IF SignOf(x) = 0 THEN NaN ELSE InfOfSign(SignOf(x)))
  ELSE Mul(x, Frac(y[2], y[1]))

Lt(x, y) ==
  /\ ~IsNaN(x)
  /\ ~IsNaN(y)
  /\ IF IsInf(x) \/ IsInf(y)
     THEN x # y /\ (x = NegInf \/ y = PosInf)
     ELSE LET g == Gcd(x[2], y[2])
              l == (x[2] \div g) * y[2]
          IN  x[1] * (l \div x[2]) < y[1] * (l \div y[2])

Gt(x, y) == Lt(y, x)
Le(x, y) == ~IsNaN(x) /\ ~IsNaN(y) /\ ~Lt(y, x)
Ge(x, y) == Le(y, x)

\* Math.min / Math.max: NaN if either argument is NaN
MathMin(x, y) == IF IsNaN(x) \/ IsNaN(y) THEN NaN ELSE IF Lt(y, x) THEN y ELSE x
MathMax(x, y) == IF IsNaN(x) \/ IsNaN(y) THEN NaN ELSE IF Gt(y, x) THEN y ELSE x
MathAbs(x) == <<AbsInt(x[1]), x[2]>>

\* x || y on numbers: 0 and NaN are falsy
OrElse(x, y) == IF IsNaN(x) \/ x = R(0) THEN y ELSE x


\* the value JavaScript calls undefined (a missing array element or field)
Undefined == <<>>

\* x || y: undefined, 0 and NaN are falsy
OrDefault(x, y) == IF x = Undefined THEN y ELSE OrElse(x, y)

----------------------------------------------------------------------------
(* Arrays *)

\* Array.prototype.slice(-k): a new array of the last min(k, length) elements
SliceLast(arr, k) ==
  LET n == Len(arr)
      from == IF n > k THEN n - k ELSE 0
  IN  [i \in 1..(n - from) |-> arr[from + i]]

\* Array.prototype.slice(-a, -b) with a >= b > 0: elements [max(n-a,0), max(n-b,0))
SliceBetween(arr, a, b) ==
  LET n == Len(arr)
      from == IF n > a THEN n - a ELSE 0
      to == IF n > b THEN n - b ELSE 0
  IN  [i \in 1..(to - from) |-> arr[from + i]]

\* Array.prototype.slice(0, -1): a new array without the last element;
\* the receiver is left as it is
\* (the same result taken with pop(), which shortens the receiver)
SliceDropLastInPlace(arr) ==
  [ret |-> [i \in 1..(Len(arr) - 1) |-> arr[i]],
   arr |-> [i \in 1..(Len(arr) - 1) |-> arr[i]]]

SliceDropLast(arr) ==
  [ret |-> [i \in 1..(Len(arr) - 1) |-> arr[i]], arr |-> arr]

Closes(priceData) == [i \in 1..Len(priceData) |-> priceData[i].close]
Volumes(priceData) == [i \in 1..Len(priceData) |-> priceData[i].volume]

\* vals[lo] + ... + vals[hi] (the range is split in halves to keep the
\* evaluation shallow)
RECURSIVE SumRange(_, _, _)
SumRange(vals, lo, hi) ==
  IF lo > hi THEN 0
  ELSE IF lo = hi THEN vals[lo]
  ELSE LET mid == (lo + hi) \div 2
       IN  SumRange(vals, lo, mid) + SumRange(vals, mid + 1, hi)

RECURSIVE SumSqRange(_, _, _)
SumSqRange(vals, lo, hi) ==
  IF lo > hi THEN 0
  ELSE IF lo = hi THEN vals[lo] * vals[lo]
  ELSE LET mid == (lo + hi) \div 2
       IN  SumSqRange(vals, lo, mid) + SumSqRange(vals, mid + 1, hi)

\* values.reduce((sum, v) => sum + v, 0) / values.length
Average(vals) ==
  Div(R(SumRange(vals, 1, Len(vals))), R(Len(vals)))

----------------------------------------------------------------------------
(* lib/analysis/technicalIndicators.ts *)

MinDataPoints == 50
SMA20Period == 20
SMA50Period == 50
SMA200Period == 200
EMA12Period == 12
EMA26Period == 26
BBStdDev == 2
DefaultRSI == 50
DefaultStochastic == 50
DefaultADX == 25

\* The result array of a technicalindicators call is kept as its length and
\* its last element, the only two things the caller reads.
NoValues == [length |-> 0, last |-> Undefined]

\* SMA.calculate({values, period}): one mean per full window of period values
SMACalculate(values, period) ==
  LET n == Len(values)
  IN  IF n < period THEN NoValues
      ELSE [length |-> n - period + 1,
            last |-> Frac(SumRange(values, n - period + 1, n), period)]

\* for (i = lo; i <= hi; i++) ema = (values[i] - ema) * multiplier + ema
\* (the range is split in halves to keep the evaluation shallow)
RECURSIVE EMALoop(_, _, _, _, _)
EMALoop(values, multiplier, lo, hi, ema) ==
  IF lo > hi THEN ema
  ELSE IF lo = hi THEN Add(Mul(Sub(R(values[lo]), ema), multiplier), ema)
  ELSE LET mid == (lo + hi) \div 2
           half == EMALoop(values, multiplier, lo, mid, ema)
       IN  IF IsNaN(half) THEN NaN
           ELSE EMALoop(values, multiplier, mid + 1, hi, half)

\* EMA.calculate({values, period}): seeded with the mean of the first period
\* values, then the recurrence with multiplier 2 / (period + 1)
EMACalculate(values, period) ==
  LET n == Len(values)
  IN  IF n < period THEN NoValues
      ELSE [length |-> n - period + 1,
            last |-> EMALoop(values, Frac(2, period + 1), period + 1, n,
                             Frac(SumRange(values, 1, period), period))]

\* largest r in lo..hi with r * r <= x (lo * lo <= x is assumed)
RECURSIVE IsqrtBetween(_, _, _)
IsqrtBetween(x, lo, hi) ==
  IF lo >= hi THEN lo
  ELSE LET mid == (lo + hi + 1) \div 2
       IN  IF mid * mid <= x THEN IsqrtBetween(x, mid, hi)
           ELSE IsqrtBetween(x, lo, mid - 1)

\* Math.sqrt of the integer x, to one decimal digit (0 exactly when x = 0)
Sqrt(x) == Frac(IsqrtBetween(x * 100, 0, 46340), 10)

\* BollingerBands.calculate({values, period, stdDev}): middle = mean of the
\* trailing window, upper / lower = middle +- stdDev * population standard
\* deviation of the window, sd = sqrt(period * sum(x^2) - sum(x)^2) / period
BollingerCalculate(values, period, stdDev) ==
  LET n == Len(values)
      sum == SumRange(values, n - period + 1, n)
      sumSq == SumSqRange(values, n - period + 1, n)
      middle == Frac(sum, period)
      sd == Div(Sqrt(period * sumSq - sum * sum), R(period))
  IN  IF n < period THEN NoValues
      ELSE [length |-> n - period + 1,
            last |-> [upper |-> Add(middle, Mul(R(stdDev), sd)),
                      middle |-> middle,
                      lower |-> Sub(middle, Mul(R(stdDev), sd))]]

\* for (i = lo; i <= hi; i++) { obv += / -= volume by the close's direction }
RECURSIVE OBVLoop(_, _, _, _)
OBVLoop(priceData, lo, hi, obv) ==
  IF lo > hi THEN obv
  ELSE IF lo = hi
  THEN LET currentClose == priceData[lo].close
           previousClose == priceData[lo - 1].close
           volume == priceData[lo].volume
       IN  IF currentClose > previousClose THEN obv + volume
           ELSE IF currentClose < previousClose THEN obv - volume
           ELSE obv
  ELSE LET mid == (lo + hi) \div 2
           half == OBVLoop(priceData, lo, mid, obv)
       IN  IF half = half THEN OBVLoop(priceData, mid + 1, hi, half) ELSE half

\* (OBV seeded with the first bar's volume instead of 0)
calculateOBVSeeded(priceData) ==
  OBVLoop(priceData, 2, Len(priceData), priceData[1].volume)

\* let obv = 0; for (let i = 1; i < priceData.length; i++) ...
calculateOBV(priceData) == OBVLoop(priceData, 2, Len(priceData), 0)

\* (the guard with <= for <)
InsufficientDataInclusive(priceData) == Len(priceData) <= MinDataPoints

\* (the guard at the 20 bars of the US route)
InsufficientDataBelowTwenty(priceData) == Len(priceData) < 20

\* if (priceData.length < 50) throw new Error('Insufficient data ...')
InsufficientData(priceData) == Len(priceData) < MinDataPoints

\* (no fallback: 0 while there are fewer than 200 bars)
Sma200Zero(sma200Values, sma50Values, lastClose) ==
  IF sma200Values.length > 0 THEN sma200Values.last ELSE R(0)

\* (SMA200 falling back to the last close directly)
Sma200LastClose(sma200Values, sma50Values, lastClose) ==
  IF sma200Values.length > 0 THEN sma200Values.last ELSE lastClose

\* sma200Values.length > 0 ? last(sma200Values)
\*   : sma50Values.length > 0 ? last(sma50Values) : last(closes)
Sma200(sma200Values, sma50Values, lastClose) ==
  IF sma200Values.length > 0 THEN sma200Values.last
  ELSE IF sma50Values.length > 0 THEN sma50Values.last
  ELSE lastClose

\* The outputs of RSI.calculate, MACD.calculate, Stochastic.calculate and
\* ADX.calculate (package technicalindicators, not part of the repository)
\* are a function of the series that the model does not interpret: libOut
\* holds the result arrays the package returns for the series.
calculateTechnicalIndicators(priceData, libOut) ==
  IF InsufficientData(priceData)
  THEN [ok |-> FALSE, error |-> "InsufficientData", length |-> Len(priceData)]
  ELSE
  LET closes == Closes(priceData)
      volumes == Volumes(priceData)
      lastClose == R(closes[Len(closes)])
      rsiValues == libOut.rsi
      rsi == IF rsiValues.length > 0 THEN rsiValues.last ELSE R(DefaultRSI)
      macdValues == libOut.macd
      latestMacd == IF macdValues.length > 0 THEN macdValues.last
                    ELSE [MACD |-> R(0), signal |-> R(0), histogram |-> R(0)]
      sma20Values == IF Len(priceData) >= SMA20Period
                     THEN SMACalculate(closes, SMA20Period) ELSE NoValues
      sma50Values == IF Len(priceData) >= SMA50Period
                     THEN SMACalculate(closes, SMA50Period) ELSE NoValues
      sma200Values == IF Len(priceData) >= SMA200Period
                      THEN SMACalculate(closes, SMA200Period) ELSE NoValues
      sma20 == IF sma20Values.length > 0 THEN sma20Values.last ELSE lastClose
      sma50 == IF sma50Values.length > 0 THEN sma50Values.last ELSE lastClose
      sma200 == Sma200(sma200Values, sma50Values, lastClose)
      ema12Values == EMACalculate(closes, EMA12Period)
      ema26Values == EMACalculate(closes, EMA26Period)
      ema12 == IF ema12Values.length > 0 THEN ema12Values.last ELSE lastClose
      ema26 == IF ema26Values.length > 0 THEN ema26Values.last ELSE lastClose
      bbValues == BollingerCalculate(closes, SMA20Period, BBStdDev)
      latestBB == IF bbValues.length > 0 THEN bbValues.last
                  ELSE [upper |-> lastClose, middle |-> lastClose, lower |-> lastClose]
      stochasticValues == libOut.stochastic
      latestStochastic == IF stochasticValues.length > 0 THEN stochasticValues.last
                          ELSE [k |-> R(DefaultStochastic), d |-> R(DefaultStochastic)]
      adxValues == libOut.adx
      adx == IF adxValues.length > 0 /\ OrDefault(adxValues.last.adx, R(0)) # R(0)
             THEN adxValues.last.adx ELSE R(DefaultADX)
      obv == calculateOBV(priceData)
      volumeSMAValues == SMACalculate(volumes, SMA20Period)
      volumeSMA == IF volumeSMAValues.length > 0 THEN volumeSMAValues.last
                   ELSE R(volumes[Len(volumes)])
  IN  [ok |-> TRUE,
       value |->
         [rsi |-> rsi,
          macd |-> [MACD |-> OrDefault(latestMacd.MACD, R(0)),
                    signal |-> OrDefault(latestMacd.signal, R(0)),
                    histogram |-> OrDefault(latestMacd.histogram, R(0))],
          sma |-> [sma20 |-> sma20, sma50 |-> sma50, sma200 |-> sma200],
          ema |-> [ema12 |-> ema12, ema26 |-> ema26],
          bollingerBands |-> [upper |-> latestBB.upper, middle |-> latestBB.middle,
                              lower |-> latestBB.lower],
          stochastic |-> [k |-> latestStochastic.k, d |-> latestStochastic.d],
          adx |-> adx,
          obv |-> R(obv),
          volumeSMA |-> volumeSMA]]

----------------------------------------------------------------------------
(* lib/analysis/trends.ts *)

TrendWindow == 20
ReversalWindow == 14
SidewaysStrength == 25
RSIOverbought == 70
RSIOversold == 30

\* calculateEMA(values, period)
calculateEMA(values, period) ==
  IF Len(values) < period THEN R(values[Len(values)])
  ELSE EMALoop(values, Frac(2, period + 1), period + 1, Len(values),
               Frac(SumRange(values, 1, period), period))

\* (the count with strict comparisons: a tie is not a consistent day)
RECURSIVE ConsistentDaysStrict(_, _, _)
ConsistentDaysStrict(recentPrices, direction, i) ==
  IF i < 2 THEN 0
  ELSE ConsistentDaysStrict(recentPrices, direction, i - 1) +
       (IF direction = "up" /\ recentPrices[i] > recentPrices[i - 1] THEN 1
        ELSE IF direction = "down" /\ recentPrices[i] < recentPrices[i - 1] THEN 1
        ELSE 0)

\* for (i = 1; i < recentPrices.length; i++) if (...) consistentDays++
RECURSIVE ConsistentDays(_, _, _)
ConsistentDays(recentPrices, direction, i) ==
  IF i < 2 THEN 0
  ELSE ConsistentDays(recentPrices, direction, i - 1) +
       (IF direction = "up" /\ recentPrices[i] >= recentPrices[i - 1] THEN 1
        ELSE IF direction = "down" /\ recentPrices[i] <= recentPrices[i - 1] THEN 1
        ELSE 0)

calculateTrendStrength(priceData, direction) ==
  LET recentPrices == Closes(SliceLast(priceData, TrendWindow))
      firstPrice == R(recentPrices[1])
      lastPrice == R(recentPrices[Len(recentPrices)])
      priceChange == IF direction = "up"
                     THEN Mul(Div(Sub(lastPrice, firstPrice), firstPrice), R(100))
                     ELSE Mul(Div(Sub(firstPrice, lastPrice), firstPrice), R(100))
      consistentDays == ConsistentDays(recentPrices, direction, Len(recentPrices))
      consistency == Mul(Div(R(consistentDays), R(Len(recentPrices) - 1)), R(100))
  IN  MathMin(R(100), Add(Mul(priceChange, R(2)), Mul(consistency, Frac(1, 2))))

\* (RSI of exactly 70 / 30 counted as overbought / oversold)
detectReversalInclusive(priceData, technicalIndicators) ==
  LET recentPrices == Closes(SliceLast(priceData, ReversalWindow))
      priceTrend == IF recentPrices[Len(recentPrices)] > recentPrices[1]
                    THEN "up" ELSE "down"
      rsiOverbought == Ge(technicalIndicators.rsi, R(RSIOverbought))
      rsiOversold == Le(technicalIndicators.rsi, R(RSIOversold))
  IN  IF priceTrend = "up" /\ rsiOverbought /\ Lt(technicalIndicators.macd.histogram, R(0))
      THEN TRUE
      ELSE IF priceTrend = "down" /\ rsiOversold /\ Gt(technicalIndicators.macd.histogram, R(0))
      THEN TRUE
      ELSE FALSE

detectReversal(priceData, technicalIndicators) ==
  LET recentPrices == Closes(SliceLast(priceData, ReversalWindow))
      priceTrend == IF recentPrices[Len(recentPrices)] > recentPrices[1]
                    THEN "up" ELSE "down"
      rsiOverbought == Gt(technicalIndicators.rsi, R(RSIOverbought))
      rsiOversold == Lt(technicalIndicators.rsi, R(RSIOversold))
  IN  IF priceTrend = "up" /\ rsiOverbought /\ Lt(technicalIndicators.macd.histogram, R(0))
      THEN TRUE
      ELSE IF priceTrend = "down" /\ rsiOversold /\ Gt(technicalIndicators.macd.histogram, R(0))
      THEN TRUE
      ELSE FALSE

\* (the crossover with strict comparisons on the previous EMAs)
MovingAverageCrossoverStrict(technicalIndicators, priceData) ==
  LET ema12 == technicalIndicators.ema.ema12
      ema26 == technicalIndicators.ema.ema26
      prevCloses == Closes(SliceDropLast(priceData).ret)
      prevEma12 == calculateEMA(prevCloses, EMA12Period)
      prevEma26 == calculateEMA(prevCloses, EMA26Period)
  IN  IF Len(priceData) >= 2
      THEN IF Gt(ema12, ema26) /\ Lt(prevEma12, prevEma26) THEN "bullish"
           ELSE IF Lt(ema12, ema26) /\ Gt(prevEma12, prevEma26) THEN "bearish"
           ELSE "none"
      ELSE "none"

\* the crossover branch of analyzeTrend (lines 16-29)
MovingAverageCrossover(technicalIndicators, priceData) ==
  LET ema12 == technicalIndicators.ema.ema12
      ema26 == technicalIndicators.ema.ema26
      prevCloses == Closes(SliceDropLast(priceData).ret)
      prevEma12 == calculateEMA(prevCloses, EMA12Period)
      prevEma26 == calculateEMA(prevCloses, EMA26Period)
  IN  IF Len(priceData) >= 2
      THEN IF Gt(ema12, ema26) /\ Le(prevEma12, prevEma26) THEN "bullish"
           ELSE IF Lt(ema12, ema26) /\ Ge(prevEma12, prevEma26) THEN "bearish"
           ELSE "none"
      ELSE "none"

\* (the direction with >= / <= between the price and SMA20)
TrendDirectionNonStrict(technicalIndicators, priceData) ==
  LET currentPrice == R(priceData[Len(priceData)].close)
      sma20 == technicalIndicators.sma.sma20
      sma50 == technicalIndicators.sma.sma50
      sma200 == technicalIndicators.sma.sma200
  IN  IF Ge(currentPrice, sma20) /\ Gt(sma20, sma50) /\ Gt(sma50, sma200)
      THEN "uptrend"
      ELSE IF Le(currentPrice, sma20) /\ Lt(sma20, sma50) /\ Lt(sma50, sma200)
      THEN "downtrend"
      ELSE "sideways"

\* the direction branch of analyzeTrend (lines 31-45)
TrendDirection(technicalIndicators, priceData) ==
  LET currentPrice == R(priceData[Len(priceData)].close)
      sma20 == technicalIndicators.sma.sma20
      sma50 == technicalIndicators.sma.sma50
      sma200 == technicalIndicators.sma.sma200
  IN  IF Gt(currentPrice, sma20) /\ Gt(sma20, sma50) /\ Gt(sma50, sma200)
      THEN "uptrend"
      ELSE IF Lt(currentPrice, sma20) /\ Lt(sma20, sma50) /\ Lt(sma50, sma200)
      THEN "downtrend"
      ELSE "sideways"

analyzeTrend(technicalIndicators, priceData) ==
  LET direction == TrendDirection(technicalIndicators, priceData)
      strength == IF direction = "uptrend" THEN calculateTrendStrength(priceData, "up")
                  ELSE IF direction = "downtrend"
                  THEN calculateTrendStrength(priceData, "down")
                  ELSE R(SidewaysStrength)
  IN  [direction |-> direction,
       strength |-> MathMax(R(0), MathMin(R(100), strength)),
       reversalSignal |-> detectReversal(priceData, technicalIndicators),
       movingAverageCrossover |-> MovingAverageCrossover(technicalIndicators, priceData)]

----------------------------------------------------------------------------
(* lib/analysis/momentum.ts *)

ShortTermDays == 20
LongTermDays == 50
RecentVolumeDays == 5

Clamp0To100(x) == MathMax(R(0), MathMin(R(100), x))

\* priceData[Math.max(0, priceData.length - days)].close
CloseDaysAgo(priceData, days) ==
  LET idx == IF Len(priceData) - days > 0 THEN Len(priceData) - days ELSE 0
  IN  R(priceData[idx + 1].close)

RsiScore(rsi) ==
  IF Lt(rsi, R(30)) THEN Sub(R(100), Mul(Div(rsi, R(30)), R(50)))
  ELSE IF Gt(rsi, R(70)) THEN Sub(R(50), Mul(Div(Sub(rsi, R(70)), R(30)), R(50)))
  ELSE Add(R(50), Mul(Div(Sub(R(50), MathAbs(Sub(rsi, R(50)))), R(20)), R(30)))

MacdScore(macd, currentPrice) ==
  IF Gt(macd.MACD, macd.signal)
  THEN Add(R(50), MathMin(R(50), Mul(Div(macd.histogram, currentPrice), R(10000))))
  ELSE Sub(R(50), MathMin(R(50), Mul(MathAbs(Div(macd.histogram, currentPrice)), R(10000))))

SmaScore(sma, currentPrice) ==
  IF Gt(currentPrice, sma.sma20)
  THEN IF Gt(currentPrice, sma.sma50)
       THEN IF Gt(currentPrice, sma.sma200) THEN R(100) ELSE R(75)
       ELSE R(50)
  ELSE R(25)

BbScore(bollingerBands, currentPrice) ==
  LET bbPosition == Div(Sub(currentPrice, bollingerBands.lower),
                        Sub(bollingerBands.upper, bollingerBands.lower))
  IN  IF Lt(bbPosition, Frac(2, 10)) THEN R(100)
      ELSE IF Gt(bbPosition, Frac(8, 10)) THEN R(0)
      ELSE Add(R(50), Mul(Sub(Frac(1, 2), bbPosition), R(100)))

StochasticScore(stochastic) ==
  IF Lt(stochastic.k, R(20)) THEN R(100)
  ELSE IF Gt(stochastic.k, R(80)) THEN R(0)
  ELSE Add(R(50), Mul(Sub(R(50), stochastic.k), Frac(625, 1000)))

AdxScore(adx) ==
  IF Gt(adx, R(25)) THEN MathMin(R(100), Add(R(50), Mul(Sub(adx, R(25)), R(2))))
  ELSE Mul(adx, R(2))

\* priceData.slice(-5).reduce((sum, d) => sum + (d.volume || 0), 0) / 5
RecentVolume(priceData) ==
  LET recent == Volumes(SliceLast(priceData, RecentVolumeDays))
  IN  Frac(SumRange(recent, 1, Len(recent)), RecentVolumeDays)

VolumeScore(priceData, volumeSMA) ==
  IF Gt(RecentVolume(priceData), volumeSMA) THEN R(75) ELSE R(25)

ShortTermScore(priceData) ==
  LET currentPrice == R(priceData[Len(priceData)].close)
      price20DaysAgo == CloseDaysAgo(priceData, ShortTermDays)
      shortTermMomentum == Mul(Div(Sub(currentPrice, price20DaysAgo), price20DaysAgo), R(100))
  IN  Add(R(50), MathMin(R(50), MathMax(R(-50), Mul(shortTermMomentum, R(5)))))

LongTermScore(priceData) ==
  LET currentPrice == R(priceData[Len(priceData)].close)
      price50DaysAgo == CloseDaysAgo(priceData, LongTermDays)
      longTermMomentum == Mul(Div(Sub(currentPrice, price50DaysAgo), price50DaysAgo), R(100))
  IN  Add(R(50), MathMin(R(50), MathMax(R(-50), Mul(longTermMomentum, R(2)))))

\* the seven sub-scores of calculateMomentumScore (lines 11-65)
SubScores(technicalIndicators, priceData) ==
  LET currentPrice == R(priceData[Len(priceData)].close)
  IN  [rsi |-> RsiScore(technicalIndicators.rsi),
       macd |-> MacdScore(technicalIndicators.macd, currentPrice),
       sma |-> SmaScore(technicalIndicators.sma, currentPrice),
       bb |-> BbScore(technicalIndicators.bollingerBands, currentPrice),
       stochastic |-> StochasticScore(technicalIndicators.stochastic),
       adx |-> AdxScore(technicalIndicators.adx),
       volume |-> VolumeScore(priceData, technicalIndicators.volumeSMA)]

\* (the weights of the RSI and MACD scores exchanged)
TechnicalScoreSwapped(sub) ==
  Add(Mul(sub.rsi, Frac(20, 100)),
  Add(Mul(sub.macd, Frac(15, 100)),
  Add(Mul(sub.sma, Frac(20, 100)),
  Add(Mul(sub.bb, Frac(10, 100)),
  Add(Mul(sub.stochastic, Frac(10, 100)),
  Add(Mul(sub.adx, Frac(10, 100)),
      Mul(sub.volume, Frac(15, 100))))))))

TechnicalScore(sub) ==
  Add(Mul(sub.rsi, Frac(15, 100)),
  Add(Mul(sub.macd, Frac(20, 100)),
  Add(Mul(sub.sma, Frac(20, 100)),
  Add(Mul(sub.bb, Frac(10, 100)),
  Add(Mul(sub.stochastic, Frac(10, 100)),
  Add(Mul(sub.adx, Frac(10, 100)),
      Mul(sub.volume, Frac(15, 100))))))))

calculateMomentumScore(technicalIndicators, priceData) ==
  LET sub == SubScores(technicalIndicators, priceData)
      shortTermScore == ShortTermScore(priceData)
      longTermScore == LongTermScore(priceData)
      technicalScore == TechnicalScore(sub)
      overallScore == Add(Mul(technicalScore, Frac(6, 10)),
                      Add(Mul(shortTermScore, Frac(25, 100)),
                          Mul(longTermScore, Frac(15, 100))))
  IN  [score |-> Clamp0To100(overallScore),
       shortTerm |-> Clamp0To100(shortTermScore),
       longTerm |-> Clamp0To100(longTermScore),
       breakdown |-> [technical |-> Clamp0To100(technicalScore),
                      trend |-> Clamp0To100(sub.adx),
                      volume |-> Clamp0To100(sub.volume)]]

----------------------------------------------------------------------------
(* analyzeFundamentals (lib/data/yahooFinance.ts, lines 165-196) *)

VolumeWindow == 20
VolumeChangeThreshold == 10

\* (the thresholds taken inclusively)
VolumeTrendInclusive(volumeChangePercent) ==
  IF Ge(volumeChangePercent, R(VolumeChangeThreshold)) THEN "increasing"
  ELSE IF Le(volumeChangePercent, R(-VolumeChangeThreshold)) THEN "decreasing"
  ELSE "stable"

\* if (volumeChangePercent > 10) ... else if (volumeChangePercent < -10) ...
VolumeTrend(volumeChangePercent) ==
  IF Gt(volumeChangePercent, R(VolumeChangeThreshold)) THEN "increasing"
  ELSE IF Lt(volumeChangePercent, R(-VolumeChangeThreshold)) THEN "decreasing"
  ELSE "stable"

analyzeFundamentals(priceData, marketCap, peRatio, priceToBook) ==
  LET recentVolumes == Volumes(SliceLast(priceData, VolumeWindow))
      olderVolumes == Volumes(SliceBetween(priceData, 2 * VolumeWindow, VolumeWindow))
      recentAvgVolume == Average(recentVolumes)
      olderAvgVolume == Average(olderVolumes)
      volumeChangePercent ==
        Mul(Div(Sub(recentAvgVolume, olderAvgVolume), olderAvgVolume), R(100))
  IN  [peRatio |-> peRatio,
       marketCap |-> marketCap,
       priceToBook |-> priceToBook,
       volumeTrend |-> VolumeTrend(volumeChangePercent),
       averageVolume |-> recentAvgVolume]

\* (P/E of exactly 10 counted as low)
PeAdjustmentInclusive(peRatio) ==
  IF peRatio # Undefined
  THEN IF Gt(peRatio, R(0)) /\ Le(peRatio, R(10)) THEN 10
       ELSE IF Gt(peRatio, R(25)) THEN -10
       ELSE 0
  ELSE 0

\* (the volume trend weighted with 35 points)
VolumeAdjustmentOfThirtyFive(volumeTrend) ==
  IF volumeTrend = "increasing" THEN 35
  ELSE IF volumeTrend = "decreasing" THEN -35
  ELSE 0

\* if (fundamentals.volumeTrend === 'increasing') score += 15; else if ...
VolumeAdjustment(volumeTrend) ==
  IF volumeTrend = "increasing" THEN 15
  ELSE IF volumeTrend = "decreasing" THEN -15
  ELSE 0

\* if (fundamentals.peRatio !== undefined) { ... }
PeAdjustment(peRatio) ==
  IF peRatio # Undefined
  THEN IF Gt(peRatio, R(0)) /\ Lt(peRatio, R(10)) THEN 10
       ELSE IF Gt(peRatio, R(25)) THEN -10
       ELSE 0
  ELSE 0

\* if (fundamentals.priceToBook !== undefined) { ... }
PriceToBookAdjustment(priceToBook) ==
  IF priceToBook # Undefined
  THEN IF Gt(priceToBook, R(0)) /\ Lt(priceToBook, R(1)) THEN 10
       ELSE IF Gt(priceToBook, R(3)) THEN -10
       ELSE 0
  ELSE 0

\* `score` when the return statement is reached: let score = 50; ...
FundamentalScoreBeforeClamp(fundamentals) ==
  50 + VolumeAdjustment(fundamentals.volumeTrend)
     + PeAdjustment(fundamentals.peRatio)
     + PriceToBookAdjustment(fundamentals.priceToBook)

\* return Math.max(0, Math.min(100, score))
calculateFundamentalScore(fundamentals) ==
  MathMax(R(0), MathMin(R(100), R(FundamentalScoreBeforeClamp(fundamentals))))

----------------------------------------------------------------------------
(* Inputs *)

\* bounds of the enumerated inputs
MaxTail == 2
MaxDelta == 1

RECURSIVE TailsOfLength(_)
TailsOfLength(k) ==
  IF k = 0 THEN {<<>>}
  ELSE {Append(t, d) : t \in TailsOfLength(k - 1), d \in (-MaxDelta)..MaxDelta}

Tails(maxLen) == UNION {TailsOfLength(k) : k \in 0..maxLen}

\* A volume pattern: `old` on every bar but the last `k`, which have `new`.
FlatVolume == [old |-> 1000, new |-> 1000, k |-> 0]
HighRecentVolume == [old |-> 1000, new |-> 3000, k |-> 5]
VolumePatterns == {FlatVolume, HighRecentVolume, [old |-> 1000, new |-> 0, k |-> 5]}

\* The series of n bars whose closes start at `start`, move by `slope` per bar
\* and end with the steps listed in `tail`.
SeriesOf(n, start, slope, tail, vol) ==
  LET m == n - Len(tail)
      close(i) == IF i <= m THEN start + slope * (i - 1)
                  ELSE start + slope * (m - 1) + SumRange(tail, 1, i - m)
  IN  [i \in 1..n |->
         [close |-> close(i), volume |-> IF i > n - vol.k THEN vol.new ELSE vol.old]]

\* bars as the providers deliver them: the filters keep close > 0
WellFormed(s) == \A i \in 1..Len(s) : s[i].close > 0 /\ s[i].volume >= 0

\* Series long enough (or just too short) for calculateTechnicalIndicators:
\* the lengths around the two thresholds, rising, flat and falling
PipelineLengths ==
  {MinDataPoints - 1, MinDataPoints, MinDataPoints + 1, MinDataPoints + 10,
   SMA200Period - 1, SMA200Period, SMA200Period + 1}

\* falling series end near 100; rising ones start at 100, or at 1 when they
\* are long enough for SMA200
StartPrice(n, slope) ==
  IF slope < 0 THEN 100 + n
  ELSE IF slope > 0 /\ n >= SMA200Period - 1 THEN 1
  ELSE 100

PipelineSeries ==
  {s \in {SeriesOf(n, StartPrice(n, slope), slope, tail, vol) :
            n \in PipelineLengths, slope \in (-MaxDelta)..MaxDelta,
            tail \in Tails(1), vol \in {FlatVolume, HighRecentVolume}} : WellFormed(s)}

\* Short series for direct calls of analyzeTrend / calculateMomentumScore /
\* analyzeFundamentals: flat at 3 with up to MaxTail free steps at the end
DirectLengths == {1, 2, 3, EMA12Period + 1, EMA26Period + 1, EMA26Period + 2}

DirectSeries ==
  {s \in {SeriesOf(n, 3, 0, tail, FlatVolume) :
            n \in DirectLengths, tail \in Tails(MaxTail)} : WellFormed(s)}

MomentumSeries ==
  {s \in {SeriesOf(n, 3, 0, tail, vol) :
            n \in {1, RecentVolumeDays + 1, ShortTermDays + 1, LongTermDays + 1},
            tail \in Tails(1), vol \in VolumePatterns} : WellFormed(s)}

\* Result arrays of the technicalindicators package for a series
Values(v) == [length |-> 1, last |-> v]
MacdOf(m, sg) == [MACD |-> m, signal |-> sg, histogram |-> Sub(m, sg)]

DefaultLib ==
  [rsi |-> Values(R(50)), macd |-> Values(MacdOf(R(1), R(0))),
   stochastic |-> Values([k |-> R(50), d |-> R(50)]), adx |-> Values([adx |-> R(30)])]

LibOutputs ==
  {DefaultLib,
   [DefaultLib EXCEPT !.rsi = NoValues],
   [DefaultLib EXCEPT !.rsi = Values(R(20)), !.macd = Values(MacdOf(R(-1), R(0)))],
   [DefaultLib EXCEPT !.rsi = Values(R(80)), !.macd = NoValues],
   [DefaultLib EXCEPT !.macd =
      Values([MACD |-> R(1), signal |-> Undefined, histogram |-> Undefined])],
   [DefaultLib EXCEPT !.stochastic = NoValues, !.adx = NoValues],
   [DefaultLib EXCEPT !.stochastic = Values([k |-> R(10), d |-> R(15)]),
                      !.adx = Values([adx |-> Undefined])],
   [DefaultLib EXCEPT !.adx = Values([adx |-> R(0)])]}

\* Indicator bundles a caller may pass to analyzeTrend and
\* calculateMomentumScore directly
DefaultBundle ==
  [rsi |-> R(50),
   macd |-> MacdOf(R(0), R(0)),
   sma |-> [sma20 |-> R(3), sma50 |-> R(3), sma200 |-> R(3)],
   ema |-> [ema12 |-> R(3), ema26 |-> R(3)],
   bollingerBands |-> [upper |-> R(5), middle |-> R(3), lower |-> R(1)],
   stochastic |-> [k |-> R(50), d |-> R(50)],
   adx |-> R(25),
   obv |-> R(0),
   volumeSMA |-> R(1000)]

Levels == {R(2), R(3), R(4)}
Percentages == {R(0), R(15), R(20), R(25), R(26), R(30), R(40), R(50), R(60), R(70),
                R(80), R(85), R(100)}

TrendBundles ==
  {[DefaultBundle EXCEPT !.sma = [sma20 |-> a, sma50 |-> b, sma200 |-> c]] :
     a \in Levels, b \in Levels, c \in Levels}
  \cup {[DefaultBundle EXCEPT !.ema = [ema12 |-> a, ema26 |-> b]] :
          a \in Levels \cup {Frac(7, 2)}, b \in Levels}
  \cup {[DefaultBundle EXCEPT !.rsi = r, !.macd = MacdOf(m, R(0))] :
          r \in {R(20), R(30), R(50), R(70), R(80)}, m \in {R(-1), R(0), R(1)}}

MomentumBundles ==
  {[DefaultBundle EXCEPT !.rsi = r] : r \in Percentages}
  \cup {[DefaultBundle EXCEPT !.macd = MacdOf(m, sg)] :
          m \in {R(-1), R(0), Frac(1, 100), R(1)}, sg \in {R(0), Frac(1, 2)}}
  \cup {[DefaultBundle EXCEPT !.bollingerBands = [upper |-> u, middle |-> R(3), lower |-> l]] :
          u \in {R(3), R(4), R(5)}, l \in {R(1), R(2), R(3)}}
  \cup {[DefaultBundle EXCEPT !.stochastic = [k |-> k, d |-> k]] : k \in Percentages}
  \cup {[DefaultBundle EXCEPT !.adx = a] : a \in Percentages}
  \cup {[DefaultBundle EXCEPT !.volumeSMA = v, !.sma = [sma20 |-> a, sma50 |-> a, sma200 |-> b]] :
          v \in {R(1000), R(2000)}, a \in Levels, b \in Levels}
  \cup {[DefaultBundle EXCEPT !.rsi = x, !.stochastic = [k |-> x, d |-> x], !.adx = x,
                              !.macd = MacdOf(m, R(0))] :
          x \in {R(0), R(100)}, m \in {R(-1), R(1)}}

\* The optional arguments of analyzeFundamentals; the routes pass none
NoExternals == [marketCap |-> Undefined, peRatio |-> Undefined, priceToBook |-> Undefined]

Externals ==
  {[marketCap |-> Undefined, peRatio |-> pe, priceToBook |-> ptb] :
     pe \in {Undefined, NaN, R(-1), R(0), R(5), R(10), R(25), R(26), PosInf},
     ptb \in {Undefined, NaN, R(0), Frac(1, 2), R(1), R(3), R(4), PosInf}}
  \cup {[marketCap |-> R(1000000), peRatio |-> R(15), priceToBook |-> R(2)]}

\* Volume patterns around the +-10% thresholds of analyzeFundamentals, with a
\* zero and a non-zero older window
ThresholdVolumes ==
  {[old |-> o, new |-> n, k |-> VolumeWindow] :
     o \in {0, 1000}, n \in {0, 899, 900, 901, 1000, 1099, 1100, 1101}}
  \cup {HighRecentVolume, [old |-> 1000, new |-> 1400, k |-> 5],
        [old |-> 1000, new |-> 600, k |-> 5]}

\* Flat closes with these volumes, of lengths around the two 20-bar windows
FundamentalsSeries ==
  {SeriesOf(n, 100, 0, <<>>, vol) :
     n \in {1, VolumeWindow, VolumeWindow + 1, 2 * VolumeWindow - 1,
            2 * VolumeWindow, 2 * VolumeWindow + 1, 3 * VolumeWindow},
     vol \in ThresholdVolumes}

----------------------------------------------------------------------------
(* lib/utils/scoring.ts: the routes import it, the source tree does not hold
   it; modelled after section 4.6 of the specification *)

\* the blend weights are a policy knob of the specification
BlendWeights ==
  [momentum |-> Frac(2, 5), trend |-> Frac(3, 10), fundamental |-> Frac(3, 10)]

\* trend.strength, signed by the direction
SignedTrendStrength(trend) ==
  IF trend.direction = "uptrend" THEN trend.strength
  ELSE IF trend.direction = "downtrend" THEN Neg(trend.strength)
  ELSE R(0)

\* a weighted blend of momentum.score, the signed trend strength and the
\* fundamental score, clamped the way the analysis modules clamp
calculateOverallScore(asset) ==
  Clamp0To100(
    Add(Mul(BlendWeights.momentum, asset.momentum.score),
        Add(Mul(BlendWeights.trend, SignedTrendStrength(asset.trend)),
            Mul(BlendWeights.fundamental,
                calculateFundamentalScore(asset.fundamentals)))))

ScoreSignal(score) ==
  IF Gt(score, R(50)) THEN "bullish"
  ELSE IF Lt(score, R(50)) THEN "bearish"
  ELSE "neutral"

TrendSignal(trend) ==
  IF trend.direction = "uptrend" THEN "bullish"
  ELSE IF trend.direction = "downtrend" THEN "bearish"
  ELSE "neutral"

\* how many of momentum / trend / fundamentals point the same way
SignalAgreement(asset) ==
  LET signals == <<ScoreSignal(asset.momentum.score), TrendSignal(asset.trend),
                   ScoreSignal(calculateFundamentalScore(asset.fundamentals))>>
      count(sig) == Cardinality({i \in 1..3 : signals[i] = sig})
  IN  IF count("bullish") >= count("bearish") THEN count("bullish")
      ELSE count("bearish")

\* signal agreement and data sufficiency (series length against the 200-bar
\* window), half of the confidence each
calculateConfidence(asset) ==
  LET sufficiency == MathMin(R(1), Frac(asset.bars, SMA200Period))
  IN  Clamp0To100(Add(Mul(Frac(SignalAgreement(asset), 3), R(50)),
                      Mul(sufficiency, R(50))))

\* threshold classification of overallScore gated by confidence; a low
\* confidence dampens the extreme labels
getRecommendation(overallScore, confidence) ==
  LET sure == Ge(confidence, R(50))
  IN  IF Ge(overallScore, R(70)) THEN (IF sure THEN "strong_buy" ELSE "buy")
      ELSE IF Ge(overallScore, R(55)) THEN "buy"
      ELSE IF Ge(overallScore, R(45)) THEN "hold"
      ELSE IF Le(overallScore, R(30)) THEN (IF sure THEN "strong_sell" ELSE "sell")
      ELSE "sell"

----------------------------------------------------------------------------
(* The asset-class routes: app/api/stocks/india/route.ts, app/api/crypto
   (unnamed/part_004), app/api/stocks/us (unnamed/part_005) *)

Routes == {"india", "crypto", "us"}

\* INDIAN_STOCKS.slice(0, 5), CRYPTO_COINS.slice(0, 5), US_STOCKS.slice(0, 10):
\* the argument of the analysis (symbol or coin id) and the display name
WatchList(route) ==
  IF route = "india"
  THEN <<[symbol |-> "RELIANCE", name |-> "Reliance Industries Ltd"],
         [symbol |-> "TCS", name |-> "Tata Consultancy Services"],
         [symbol |-> "HDFCBANK", name |-> "HDFC Bank Ltd"],
         [symbol |-> "INFY", name |-> "Infosys Ltd"],
         [symbol |-> "HINDUNILVR", name |-> "Hindustan Unilever Ltd"]>>
  ELSE IF route = "crypto"
  THEN <<[symbol |-> "bitcoin", name |-> "Bitcoin"],
         [symbol |-> "ethereum", name |-> "Ethereum"],
         [symbol |-> "binancecoin", name |-> "BNB"],
         [symbol |-> "solana", name |-> "Solana"],
         [symbol |-> "cardano", name |-> "Cardano"]>>
  ELSE <<[symbol |-> "AAPL", name |-> "Apple Inc."],
         [symbol |-> "MSFT", name |-> "Microsoft Corporation"],
         [symbol |-> "GOOGL", name |-> "Alphabet Inc."],
         [symbol |-> "AMZN", name |-> "Amazon.com Inc."],
         [symbol |-> "TSLA", name |-> "Tesla Inc."],
         [symbol |-> "META", name |-> "Meta Platforms Inc."],
         [symbol |-> "NVDA", name |-> "NVIDIA Corporation"],
         [symbol |-> "JPM", name |-> "JPMorgan Chase & Co."],
         [symbol |-> "V", name |-> "Visa Inc."],
         [symbol |-> "JNJ", name |-> "Johnson & Johnson"]>>

\* the symbol parameter of a single-symbol request
RequestedSymbol(route) == IF route = "crypto" THEN "litecoin" ELSE "WIPRO"

\* if (priceData.length < 30 | 50 | 20) throw new Error('Insufficient data ...')
RouteMinimum(route) ==
  IF route = "india" THEN 30 ELSE IF route = "crypto" THEN MinDataPoints ELSE 20

AssetType(route) ==
  IF route = "india" THEN "indian_stock"
  ELSE IF route = "crypto" THEN "crypto"
  ELSE "us_stock"

\* priceData.slice(-100)
KeptBars == 100

\* the symbol a quote carries: meta.symbol (SYMBOL.NS), the coin id, the symbol
FormattedSymbol(symbol) ==
  CASE symbol = "RELIANCE" -> "RELIANCE.NS"
    [] symbol = "TCS" -> "TCS.NS"
    [] symbol = "HDFCBANK" -> "HDFCBANK.NS"
    [] symbol = "INFY" -> "INFY.NS"
    [] symbol = "HINDUNILVR" -> "HINDUNILVR.NS"
    [] symbol = "WIPRO" -> "WIPRO.NS"
    [] OTHER -> symbol

QuoteSymbol(route, symbol) == IF route = "india" THEN FormattedSymbol(symbol) ELSE symbol

\* coinId.toUpperCase()
ToUpperCase(id) ==
  CASE id = "bitcoin" -> "BITCOIN"
    [] id = "ethereum" -> "ETHEREUM"
    [] id = "binancecoin" -> "BINANCECOIN"
    [] id = "solana" -> "SOLANA"
    [] id = "cardano" -> "CARDANO"
    [] id = "litecoin" -> "LITECOIN"
    [] OTHER -> id

\* What the data layer does for one symbol: the history fetch throws or
\* returns a series; the quote fetch returns a quote, throws, or has not
\* answered when the five seconds of the India route are over.
\* `lib` is what the technicalindicators package computes on the series.
\* NoQuote is the null the route then holds in `quote`.
NoQuote == [failed |-> TRUE]
QuoteRejected == [failed |-> TRUE, settled |-> TRUE]
QuoteTimedOut == [failed |-> TRUE, settled |-> FALSE]
Quote(price, change, changePercent) ==
  [failed |-> FALSE, price |-> price, change |-> change, changePercent |-> changePercent]
Feed(priceData, quote, libOut) ==
  [failed |-> FALSE, series |-> priceData, quote |-> quote, lib |-> libOut]
FetchFailed == [failed |-> TRUE]

FlatBars(n) == SeriesOf(n, 100, 0, <<>>, FlatVolume)
RisingBars == SeriesOf(MinDataPoints + 10, 100, 1, <<>>, FlatVolume)
FallingToOneBars == SeriesOf(MinDataPoints + 10, MinDataPoints + 10, -1, <<>>, FlatVolume)

SteepMacdLib == [DefaultLib EXCEPT !.macd = Values(MacdOf(R(-1000), R(0)))]

\* a batch sees: a provider failure, a series below every route minimum, one
\* between the route minimum and the 50 bars of the indicators, a rising
\* series with a quote and (but for the ten US symbols) a flat one without
BatchFeeds(route) ==
  {FetchFailed,
   Feed(FlatBars(10), QuoteRejected, DefaultLib),
   Feed(FlatBars(MinDataPoints - 10), QuoteRejected, DefaultLib),
   Feed(RisingBars, Quote(R(160), R(1), Frac(5, 8)), DefaultLib)}
  \cup (IF route = "us" THEN {}
        ELSE {Feed(FlatBars(MinDataPoints), QuoteRejected, DefaultLib)})
  \cup (IF route = "india" THEN {Feed(RisingBars, QuoteTimedOut, DefaultLib)}
        ELSE {})

\* the quote fetches a route may see (the race against the timeout is the
\* India route's)
QuoteOutcomes(route) ==
  {QuoteRejected, Quote(R(160), R(1), Frac(5, 8)), Quote(R(0), R(0), R(0)),
   Quote(R(158), R(-1), Frac(-5, 8))}
  \cup (IF route = "india" THEN {QuoteTimedOut} ELSE {})

SingleFeeds(route) ==
  {FetchFailed}
  \cup {Feed(s, q, DefaultLib) :
          s \in {FlatBars(10), FlatBars(25), FlatBars(MinDataPoints - 10),
                 FlatBars(MinDataPoints), RisingBars},
          q \in QuoteOutcomes(route)}
  \cup {Feed(FallingToOneBars, q, SteepMacdLib) :
          q \in {QuoteRejected, Quote(Frac(1, 100), Frac(-99, 100), R(-99))}}

\* calculateTechnicalIndicators, calculateMomentumScore, analyzeTrend and
\* analyzeFundamentals on the fetched series, as analyzeStock calls them
SubAnalyses(feed) ==
  LET priceData == feed.series
      computed == calculateTechnicalIndicators(priceData, feed.lib)
  IN  IF ~computed.ok THEN [ok |-> FALSE]
      ELSE [ok |-> TRUE,
            technicalIndicators |-> computed.value,
            momentum |-> calculateMomentumScore(computed.value, priceData),
            trend |-> analyzeTrend(computed.value, priceData),
            fundamentals |->
              analyzeFundamentals(priceData, NoExternals.marketCap,
                                  NoExternals.peRatio, NoExternals.priceToBook)]

\* asset.overallScore = calculateOverallScore(asset)
WithOverallScore(asset) == [asset EXCEPT !.overallScore = calculateOverallScore(asset)]

\* asset.confidence = calculateConfidence(asset)
WithConfidence(asset) == [asset EXCEPT !.confidence = calculateConfidence(asset)]

\* asset.recommendation = getRecommendation(asset.overallScore, asset.confidence)
WithRecommendation(asset) ==
  [asset EXCEPT !.recommendation = getRecommendation(asset.overallScore, asset.confidence)]

\* the price fields and the asset literal of analyzeStock / analyzeCrypto
\* (priceData is kept as the number of bars of priceData.slice(-100), the
\* indicator bundle is left out)
UnscoredAsset(route, symbol, name, feed, analyses) ==
  LET priceData == feed.series
      hasQuote == ~feed.quote.failed
      latestClose == R(priceData[Len(priceData)].close)
      previousClose == IF Len(priceData) > 1
                       THEN R(priceData[Len(priceData) - 1].close)
                       ELSE latestClose
      currentPrice == IF hasQuote THEN OrElse(feed.quote.price, latestClose)
                      ELSE latestClose
      historyChange == Sub(currentPrice, previousClose)
      priceChange ==
        IF hasQuote
        THEN (IF route = "india" THEN feed.quote.change
              ELSE OrElse(feed.quote.change, R(0)))
        ELSE IF route = "india" /\ Len(priceData) > 1 THEN historyChange
        ELSE R(0)
      priceChangePercent ==
        IF hasQuote
        THEN (IF route = "india" THEN feed.quote.changePercent
              ELSE OrElse(feed.quote.changePercent, R(0)))
        ELSE IF route = "india" /\ Len(priceData) > 1
        THEN (IF Gt(previousClose, R(0))
              THEN Mul(Div(historyChange, previousClose), R(100))
              ELSE R(0))
        ELSE R(0)
  IN  [symbol |-> IF hasQuote THEN QuoteSymbol(route, symbol)
                  ELSE IF route = "crypto" THEN ToUpperCase(symbol)
                  ELSE symbol,
       name |-> name,
       type |-> AssetType(route),
       currentPrice |-> currentPrice,
       priceChange |-> priceChange,
       priceChangePercent |-> priceChangePercent,
       bars |-> Len(SliceLast(priceData, KeptBars)),
       fundamentals |-> analyses.fundamentals,
       trend |-> analyses.trend,
       momentum |-> analyses.momentum,
       overallScore |-> R(0),
       recommendation |-> "hold",
       confidence |-> R(0)]

\* (the recommendation taken from the placeholders, before the two scores)
AnalyzeFetchedRecommendationFirst(route, symbol, name, feed, analyses) ==
  IF ~analyses.ok THEN [ok |-> FALSE, error |-> "computation"]
  ELSE [ok |-> TRUE,
        asset |-> WithConfidence(WithOverallScore(WithRecommendation(
                    UnscoredAsset(route, symbol, name, feed, analyses))))]

\* the part of analyzeStock after the length guard
AnalyzeFetched(route, symbol, name, feed, analyses) ==
  IF ~analyses.ok THEN [ok |-> FALSE, error |-> "computation"]
  ELSE [ok |-> TRUE,
        asset |-> WithRecommendation(WithConfidence(WithOverallScore(
                    UnscoredAsset(route, symbol, name, feed, analyses))))]

\* (the rejection of the quote fetch reaching the analysis)
AwaitQuoteUncaught(route, quote) ==
  IF quote.failed THEN [threw |-> TRUE] ELSE [threw |-> FALSE, quote |-> quote]

\* what the analysis holds in `quote` after the quote fetch:
\* try { quote = await Promise.race([quotePromise, timeoutPromise]) } catch { }
\* (India), getCryptoQuote(coinId).catch(() => null) and
\* getUSStockQuote(symbol).catch(() => null)
AwaitQuote(route, quote) ==
  IF quote.failed THEN [threw |-> FALSE, quote |-> NoQuote]
  ELSE [threw |-> FALSE, quote |-> quote]

\* the analysis once the series and the quote are awaited
AnalyzeAwaited(route, symbol, name, feed, awaited) ==
  IF awaited.threw THEN [ok |-> FALSE, error |-> "quote"]
  ELSE AnalyzeFetched(route, symbol, name, [feed EXCEPT !.quote = awaited.quote],
                      SubAnalyses(feed))

\* analyzeStock / analyzeCrypto: the asset, or the error it throws
analyzeSymbol(route, symbol, name, feed) ==
  IF feed.failed THEN [ok |-> FALSE, error |-> "provider"]
  ELSE IF Len(feed.series) < RouteMinimum(route)
  THEN [ok |-> FALSE, error |-> "insufficient"]
  ELSE AnalyzeAwaited(route, symbol, name, feed, AwaitQuote(route, feed.quote))

\* what JSON.stringify writes for a number and JSON.parse reads back: NaN
\* and the infinities become null
Null == <<"null">>
JsonNumber(x) == IF IsFinite(x) THEN x ELSE Null

\* the number an arithmetic operator or a comparison makes of its operand:
\* null counts as 0, undefined as NaN
ToNumber(v) == IF v = Null THEN R(0) ELSE IF v = Undefined THEN NaN ELSE v

\* assets.sort((a, b) => b.overallScore - a.overallScore): a stable sort by
\* descending score when the comparator is consistent; with a NaN score next
\* to two different scores it is not, and the order is the engine's choice
ComparesEqual(a, b) ==
  /\ ~Gt(ToNumber(a.overallScore), ToNumber(b.overallScore))
  /\ ~Lt(ToNumber(a.overallScore), ToNumber(b.overallScore))

\* (only a NaN score compares equal to two scores that differ)
ConsistentComparator(assets) ==
  \A j \in 1..Len(assets) :
    IsNaN(ToNumber(assets[j].overallScore))
      => \A i, k \in 1..Len(assets) : ComparesEqual(assets[i], assets[k])

\* (the array left in the order of the pushes)
StableSortByScoreOmitted(assets) == assets

StableSortByScore(assets) ==
  LET n == Len(assets)
      rank(i) == 1 + Cardinality({j \in 1..n : Gt(ToNumber(assets[j].overallScore),
                                                  ToNumber(assets[i].overallScore))})
                   + Cardinality({j \in 1..(i - 1) : ComparesEqual(assets[j], assets[i])})
  IN  [r \in 1..n |-> assets[CHOOSE i \in 1..n : rank(i) = r]]

SortByScore(assets) ==
  IF ConsistentComparator(assets) THEN {StableSortByScore(assets)}
  ELSE {[r \in 1..Len(assets) |-> assets[p[r]]] : p \in Permutations(1..Len(assets))}

\* NextResponse.json(body, { status })
Json(status, body) == [status |-> status, body |-> body]
NoResponse == [status |-> 0]

\* the 503 of the India route when assets.length === 0
AllFailedResponse ==
  Json(503, [assets |-> <<>>,
             error |-> "All Indian stock requests failed. Check server logs for details.",
             message |-> "Unable to fetch Indian stock data. This may be due to API rate limits or network issues."])

\* the outer catch of a route
RouteErrorResponse(route) ==
  IF route = "india" THEN Json(500, [error |-> "Failed to fetch Indian stock data"])
  ELSE IF route = "crypto" THEN Json(500, [error |-> "Failed to fetch cryptocurrency data"])
  ELSE Json(500, [error |-> "Failed to fetch US stock data", details |-> "message"])

\* (the loop left at the first analysis that throws)
LoopContinuesUntilFailure(ok, i, n) == ok /\ i < n

\* for (const stock of LIST.slice(0, n)) { try { ... } catch { } }: the catch
\* swallows the error and the loop goes on to the next entry
LoopContinues(ok, i, n) == i < n

\* the response after the loop of the batch branch
BatchResponses(route, assets) ==
  IF route = "india" /\ Len(assets) = 0 THEN {AllFailedResponse}
  ELSE {Json(200, [assets |-> sorted]) : sorted \in SortByScore(assets)}

\* the assets a response body carries: `assets`, else `asset`
ResponseAssets(body) ==
  IF "assets" \in DOMAIN body THEN body.assets
  ELSE IF "asset" \in DOMAIN body THEN <<body.asset>>
  ELSE <<>>

----------------------------------------------------------------------------
(* app/api/recommendations/route.ts *)

\* the asset classes in the order the endpoint asks for them, with the value
\* of ?type= that selects each and the route that serves it
AssetClasses ==
  <<[type |-> "us_stock", route |-> "us"],
    [type |-> "indian_stock", route |-> "india"],
    [type |-> "crypto", route |-> "crypto"]>>

\* searchParams.get('type'): absent, one of the three classes, or another word
NoType == "null"
AssetTypes == {NoType, "us_stock", "indian_stock", "crypto", "gold"}

\* !assetType || assetType === '...'
Selected(assetType, class) == assetType = NoType \/ assetType = class.type

\* filteredAssets.slice(0, 20)
TopCount == 20

\* createRecommendation (lib/utils/scoring.ts, not in the source tree): the
\* asset with its reasoning and key metrics
createRecommendation(asset) ==
  [asset |-> asset,
   reasoning |-> <<asset.trend.direction, asset.trend.movingAverageCrossover,
                   asset.fundamentals.volumeTrend>>,
   keyMetrics |-> <<>>]

\* the assets of the analyses that returned one, in the order of the calls
PushedAssets(results) ==
  LET returned == SelectSeq(results, LAMBDA r : r.ok)
  IN  [k \in 1..Len(returned) |-> returned[k].asset]

\* the asset lists a batch of the route may have pushed: none, the first
\* one or two entries on a rising series, the first two with a flat second,
\* and every entry of the watch list on a falling or a rising series
BatchAssetLists(route) ==
  LET watchList == WatchList(route)
      rising == Feed(RisingBars, Quote(R(160), R(1), Frac(5, 8)), DefaultLib)
      flat == Feed(FlatBars(MinDataPoints), QuoteRejected, DefaultLib)
      falling == Feed(FallingToOneBars, QuoteRejected, SteepMacdLib)
      whole == [k \in 1..Len(watchList) |->
                  IF k % 2 = 1 THEN falling ELSE rising]
  IN  {PushedAssets([k \in 1..Len(feeds) |->
                      analyzeSymbol(route, watchList[k].symbol, watchList[k].name,
                                    feeds[k])]) :
         feeds \in {<<>>, <<rising>>, <<rising, rising>>, <<rising, flat>>, whole}}

\* await fetch(origin + '/api/...'): fetch throws, or the response of the
\* route's batch branch, or the 500 of its outer catch
FetchThrew == [threw |-> TRUE]
Fetched(response) == [threw |-> FALSE, response |-> response]

SubRequestOutcomes(route) ==
  {FetchThrew, Fetched(RouteErrorResponse(route))}
  \cup {Fetched(response) :
          response \in UNION {BatchResponses(route, assets) :
                                assets \in BatchAssetLists(route)}}

\* response.ok
IsOk(response) == response.status >= 200 /\ response.status <= 299

\* an asset as the endpoint reads it from the body of a sub-response: the
\* route wrote it with JSON.stringify, response.json() parses it
JsonAsset(asset) ==
  [asset EXCEPT !.currentPrice = JsonNumber(@),
                !.priceChange = JsonNumber(@),
                !.priceChangePercent = JsonNumber(@),
                !.overallScore = JsonNumber(@),
                !.confidence = JsonNumber(@),
                !.trend.strength = JsonNumber(@),
                !.momentum.score = JsonNumber(@),
                !.momentum.shortTerm = JsonNumber(@),
                !.momentum.longTerm = JsonNumber(@),
                !.momentum.breakdown.technical = JsonNumber(@),
                !.momentum.breakdown.trend = JsonNumber(@),
                !.momentum.breakdown.volume = JsonNumber(@)]

ResponseJson(body) ==
  LET assets == ResponseAssets(body)
  IN  [k \in 1..Len(assets) |-> JsonAsset(assets[k])]

\* if (response.ok) { data = await response.json(); push assets or asset }
AssetsOf(outcome) ==
  IF outcome.threw THEN <<>>
  ELSE IF IsOk(outcome.response) THEN ResponseJson(outcome.response.body)
  ELSE <<>>

\* allAssets.filter(asset => asset.confidence >= 0)
FilterByConfidence(allAssets) ==
  SelectSeq(allAssets, LAMBDA asset : Ge(ToNumber(asset.confidence), R(0)))

\* the response after the three sub-requests: filter, sort, top 20, map
RecommendationResponses(allAssets) ==
  LET filteredAssets == FilterByConfidence(allAssets)
  IN  {LET topAssets == SubSeq(sorted, 1, IF Len(sorted) < TopCount THEN Len(sorted)
                                           ELSE TopCount)
           recommendations == [k \in 1..Len(topAssets) |->
                                 createRecommendation(topAssets[k])]
       IN  Json(200, [recommendations |-> recommendations,
                      total |-> Len(recommendations),
                      filtered |-> Len(filteredAssets),
                      totalAnalyzed |-> Len(allAssets)]) :
         sorted \in SortByScore(filteredAssets)}

NewRecommendationsRequest(assetType) ==
  [route |-> "recommendations", assetType |-> assetType, pc |-> "received",
   class |-> 1, allAssets |-> <<>>, fetches |-> <<>>, response |-> NoResponse]

\* a request as the handler receives it
NewRequest(route, batch) ==
  [route |-> route, batch |-> batch, pc |-> "received", i |-> 1, assets |-> <<>>,
   calls |-> <<>>, feed |-> FetchFailed, lastError |-> "none", response |-> NoResponse]
NoRequest == [route |-> "none", pc |-> "idle"]

----------------------------------------------------------------------------
(* The price-series fetches of the data layer: fetchIndianStockData
   (lib/data/yahooFinance.ts), fetchCryptoData (unnamed/part_000),
   fetchUSStockData (lib/data/iexCloud.ts), each with the cache of its module *)

Providers == {"india", "crypto", "us"}

\* const CACHE_DURATION = 5 * 60 * 1000
CACHE_DURATION == 5 * 60 * 1000

\* Date.now() is read in steps of one minute, up to MaxMinutes
ClockStep == 60 * 1000
MaxMinutes == 6

\* the keys of the calls: `india_${symbol}`, `crypto_${coinId}_${days}`, `us_${symbol}`
CacheKeys == {"first", "second"}

\* new Map<string, { data: PriceData[]; timestamp: number }>()
NoEntry == [present |-> FALSE]
Entry(priceData, timestamp) ==
  [present |-> TRUE, data |-> priceData, timestamp |-> timestamp]
EmptyCache == [key \in CacheKeys |-> NoEntry]

\* (an entry as old as the duration still served)
FreshInclusive(cached, now) ==
  cached.present /\ now - cached.timestamp <= CACHE_DURATION

\* cached && Date.now() - cached.timestamp < CACHE_DURATION
Fresh(cached, now) ==
  cached.present /\ now - cached.timestamp < CACHE_DURATION

\* What a provider request comes to: axios throws (a network error or a
\* timeout as status 0, a rejected status), or a body arrives that is not the
\* data asked for, or the bars arrive, of which the model keeps the closes.
Thrown(status) == [kind |-> "thrown", status |-> status]
Malformed == [kind |-> "malformed"]
Bars(closes) == [kind |-> "bars", closes |-> closes]

Payloads ==
  {Thrown(0), Thrown(429), Thrown(500), Malformed,
   Bars(<<>>), Bars(<<0, 0>>), Bars(<<100, 0, 102>>), Bars(<<100, 101>>)}

\* .filter((data: PriceData) => data.close > 0)
PositiveCloses(closes) == SelectSeq(closes, LAMBDA close : close > 0)

Failure(message) == [ok |-> FALSE, message |-> message]
Validated(priceData) == [ok |-> TRUE, data |-> priceData]

\* the try block of a fetch from the answer of the provider to the series it
\* would cache, or the error thrown on the way (the catch of fetchCryptoData
\* and fetchUSStockData replaces a 429 by a rate-limit error and rethrows
\* the rest)
Validate(provider, payload) ==
  IF payload.kind = "thrown"
  THEN (IF payload.status = 429
        THEN (IF provider = "india" THEN Failure("no chart data")
              ELSE Failure("rate limit"))
        ELSE Failure("request failed"))
  ELSE IF payload.kind = "malformed"
  THEN (IF provider = "india" THEN Failure("invalid response")
        ELSE IF provider = "crypto" THEN Failure("response was not an array")
        ELSE Failure("type error"))
  ELSE IF provider = "us"
  THEN (IF Len(payload.closes) = 0 THEN Failure("no historical data")
        ELSE Validated(payload.closes))
  ELSE IF Len(payload.closes) = 0
  THEN (IF provider = "india" THEN Failure("invalid data structure")
        ELSE Failure("empty data"))
  ELSE IF Len(PositiveCloses(payload.closes)) = 0
  THEN Failure("no valid price data")
  ELSE Validated(PositiveCloses(payload.closes))

\* fetchCryptoData asks for the OHLC bars, checks that they are a non-empty
\* array and then asks for the market chart with the volumes
AsksForVolumes(provider, request, payload) ==
  /\ provider = "crypto"
  /\ request = 1
  /\ payload.kind = "bars"
  /\ Len(payload.closes) > 0

\* what an attempt comes to when its last request is answered
Settle(provider, request, held, payload) ==
  IF provider = "crypto" /\ request = 2 /\ payload.kind # "thrown"
  THEN Validate(provider, Bars(held))
  ELSE Validate(provider, payload)

\* (a third attempt)
HasAnotherAttemptOfThree(provider, attempt) == provider = "india" /\ attempt + 1 < 3

\* for (let attempt = 0; attempt < 2; attempt++): fetchIndianStockData tries
\* twice, the other fetches once
HasAnotherAttempt(provider, attempt) == provider = "india" /\ attempt + 1 < 2

\* (the series of a failed attempt stored as it is)
CacheSetAlways(cache, key, validated, now) ==
  [cache EXCEPT ![key] = Entry(IF validated.ok THEN validated.data ELSE <<>>, now)]

\* cache.set(cacheKey, { data: priceData, timestamp: Date.now() }), the last
\* statement of the try block before the return
CacheSet(cache, key, validated, now) ==
  IF validated.ok THEN [cache EXCEPT ![key] = Entry(validated.data, now)]
  ELSE cache

\* throw new Error(`Failed to fetch Indian stock data for ${symbol}: ${errorMessage}`)
\* after the loop; the other fetches throw from their catch
ThrownError(provider, failures) ==
  IF provider = "india"
  THEN <<"Failed to fetch Indian stock data", failures[Len(failures)]>>
  ELSE <<failures[Len(failures)]>>

\* a call of the fetch function, from the cache lookup to its return or throw
NoCall ==
  [pc |-> "idle", key |-> "none", began |-> 0, found |-> NoEntry, attempt |-> 0,
   request |-> 0, requests |-> 0, held |-> <<>>, failures |-> <<>>,
   result |-> <<>>, error |-> <<>>]

\* the call after the cache lookup: the cached series returned, the throw
\* for the missing API key, or the first provider request under way
BeginCall(provider, hasApiKey, key, cached, now) ==
  LET call == [NoCall EXCEPT !.key = key, !.began = now, !.found = cached]
  IN  IF Fresh(cached, now)
      THEN [call EXCEPT !.pc = "returned", !.result = cached.data]
      ELSE IF provider = "us" /\ ~hasApiKey
      THEN [call EXCEPT !.pc = "threw", !.failures = <<"api key required">>,
                        !.error = <<"api key required">>]
      ELSE [call EXCEPT !.pc = "requesting", !.request = 1, !.requests = 1]

\* the call after the attempt came to `validated`: the return, the wait
\* before the second attempt, or the throw
EndAttempt(provider, call, validated) ==
  IF validated.ok
  THEN [call EXCEPT !.pc = "returned", !.result = validated.data]
  ELSE LET failures == Append(call.failures, validated.message)
       IN  IF HasAnotherAttempt(provider, call.attempt)
           THEN [call EXCEPT !.pc = "waiting", !.failures = failures]
           ELSE [call EXCEPT !.pc = "threw", !.failures = failures,
                             !.error = ThrownError(provider, failures)]

\* the process of one provider module: its API key (IEX_CLOUD_API_KEY, read
\* once when the module is loaded), its clock, its cache, the call in progress
NewProcess(provider, hasApiKey) ==
  [provider |-> provider, hasApiKey |-> hasApiKey, now |-> 0, cache |-> EmptyCache,
   call |-> NoCall]
NoProcess == [provider |-> "none"]

----------------------------------------------------------------------------
(* State *)

VARIABLES
  series,      \* the PriceData[] object handed to the analysis functions (the
               \* array a provider cache entry holds and returns by reference)
  lib,         \* what the technicalindicators package returns for `series`
  indicators,  \* the TechnicalIndicators object held by the caller, or NoBundle
  last,        \* the latest call: function, bundle argument, result
  prev,        \* the call before it when it was a call of the same function
  provided,    \* the optional arguments the caller has for analyzeFundamentals
  handler,     \* the request a route handler is serving: its loop position,
               \* the assets pushed, the analyses called, what the data layer
               \* answered to the latest of them, and the response
  fetcher      \* a provider module of the data layer: clock, cache and the
               \* fetch call in progress

vars == <<series, lib, indicators, last, prev, provided, handler, fetcher>>
analysisVars == <<series, lib, indicators, last, prev, provided>>

NoBundle == [none |-> TRUE]
NotCalled == [called |-> FALSE, fn |-> "none"]
Called(fn, bundle, value) == [called |-> TRUE, fn |-> fn, bundle |-> bundle, value |-> value]

Record(fn, bundle, value) ==
  /\ last' = Called(fn, bundle, value)
  /\ prev' = IF last.fn = fn THEN last ELSE NotCalled

\* a fetched series about to be analysed; the package's results vary on the
\* series of the minimum length
PipelineInit ==
  /\ series \in PipelineSeries
  /\ lib \in IF Len(series) = MinDataPoints THEN LibOutputs ELSE {DefaultLib}
  /\ indicators = NoBundle

\* analyzeTrend called with a bundle of the caller's making
TrendInit ==
  /\ series \in DirectSeries
  /\ lib = DefaultLib
  /\ indicators \in TrendBundles

\* calculateMomentumScore called with a bundle of the caller's making
MomentumInit ==
  /\ series \in MomentumSeries
  /\ lib = DefaultLib
  /\ indicators \in MomentumBundles

Init ==
  /\ PipelineInit \/ TrendInit \/ MomentumInit
  /\ last = NotCalled
  /\ prev = NotCalled
  /\ provided = NoExternals
  /\ handler = NoRequest
  /\ fetcher = NoProcess

\* analyzeFundamentals and calculateFundamentalScore called on their own
FundamentalsInit ==
  /\ series \in FundamentalsSeries
  /\ lib = DefaultLib
  /\ indicators = NoBundle
  /\ last = NotCalled
  /\ prev = NotCalled
  /\ provided \in Externals
  /\ handler = NoRequest
  /\ fetcher = NoProcess

\* a request arriving at an asset-class route: one symbol, or the watch list
RouteInit ==
  /\ series = <<>>
  /\ lib = DefaultLib
  /\ indicators = NoBundle
  /\ last = NotCalled
  /\ prev = NotCalled
  /\ provided = NoExternals
  /\ handler \in {NewRequest(route, batch) : route \in Routes, batch \in BOOLEAN}
                 \cup {NewRecommendationsRequest(assetType) : assetType \in AssetTypes}
  /\ fetcher = NoProcess

\* a provider module just loaded: empty cache, no call
FetchInit ==
  /\ series = <<>>
  /\ lib = DefaultLib
  /\ indicators = NoBundle
  /\ last = NotCalled
  /\ prev = NotCalled
  /\ provided = NoExternals
  /\ handler = NoRequest
  /\ fetcher \in {NewProcess(provider, hasApiKey) :
                    provider \in Providers, hasApiKey \in BOOLEAN}

----------------------------------------------------------------------------
(* Operations *)

\* calculateTechnicalIndicators(priceData): throws on fewer than 50 bars,
\* otherwise the caller holds the bundle it returns
CalculateTechnicalIndicators ==
  LET r == calculateTechnicalIndicators(series, lib)
  IN  /\ Record("calculateTechnicalIndicators", NoBundle, r)
      /\ indicators' = IF r.ok THEN r.value ELSE indicators
      /\ UNCHANGED <<series, lib, provided, handler, fetcher>>

\* analyzeTrend(technicalIndicators, priceData)
AnalyzeTrend ==
  /\ indicators # NoBundle
  /\ Len(series) >= 1
  /\ Record("analyzeTrend", indicators, analyzeTrend(indicators, series))
  /\ series' = SliceDropLast(series).arr
  /\ UNCHANGED <<lib, indicators, provided, handler, fetcher>>

\* calculateMomentumScore(technicalIndicators, priceData)
CalculateMomentumScore ==
  /\ indicators # NoBundle
  /\ Len(series) >= 1
  /\ Record("calculateMomentumScore", indicators,
            calculateMomentumScore(indicators, series))
  /\ UNCHANGED <<series, lib, indicators, provided, handler, fetcher>>

\* analyzeFundamentals(priceData, marketCap, peRatio, priceToBook)
AnalyzeFundamentals ==
  /\ Record("analyzeFundamentals", NoBundle,
            analyzeFundamentals(series, provided.marketCap, provided.peRatio,
                                provided.priceToBook))
  /\ UNCHANGED <<series, lib, indicators, provided, handler, fetcher>>

\* calculateFundamentalScore(fundamentals) on the FundamentalData just returned
CalculateFundamentalScore ==
  /\ last.fn = "analyzeFundamentals"
  /\ Record("calculateFundamentalScore", last.value, calculateFundamentalScore(last.value))
  /\ UNCHANGED <<series, lib, indicators, provided, handler, fetcher>>

Next ==
  \/ CalculateTechnicalIndicators
  \/ AnalyzeTrend
  \/ CalculateMomentumScore
  \/ AnalyzeFundamentals

Spec == Init /\ [][Next]_vars

FundamentalsNext ==
  \/ AnalyzeFundamentals
  \/ CalculateFundamentalScore

FundamentalsSpec == FundamentalsInit /\ [][FundamentalsNext]_vars

\* the handler after the analysis of the requested symbol returned r
SingleTurn(h, symbol, feed, r) ==
  [h EXCEPT !.pc = "done",
            !.calls = Append(@, [symbol |-> symbol, ok |-> r.ok]),
            !.feed = feed,
            !.lastError = IF r.ok THEN @ ELSE r.error,
            !.response = IF r.ok THEN Json(200, [asset |-> r.asset])
                         ELSE RouteErrorResponse(h.route)]

\* GET ?symbol=...: the asset of the symbol, or the 500 of the outer catch
GetSingle ==
  /\ handler.route \in Routes
  /\ handler.pc = "received"
  /\ ~handler.batch
  /\ \E feed \in SingleFeeds(handler.route) :
       handler' = SingleTurn(handler, RequestedSymbol(handler.route), feed,
                             analyzeSymbol(handler.route, RequestedSymbol(handler.route),
                                           RequestedSymbol(handler.route), feed))
  /\ UNCHANGED <<analysisVars, fetcher>>

\* the handlers one turn of the batch loop may lead to, the analysis of the
\* entry having returned r: the push or the swallowed error, and after the
\* last entry the all-failed check (India), the sort and the response
BatchTurn(h, entry, n, feed, r) ==
  LET assets == IF r.ok THEN Append(h.assets, r.asset) ELSE h.assets
      turned == [h EXCEPT !.i = @ + 1,
                          !.assets = assets,
                          !.feed = feed,
                          !.calls = Append(@, [symbol |-> entry.symbol, ok |-> r.ok]),
                          !.lastError = IF r.ok THEN @ ELSE r.error]
  IN  IF LoopContinues(r.ok, h.i, n) THEN {[turned EXCEPT !.pc = "analysing"]}
      ELSE {[turned EXCEPT !.pc = "done", !.response = response] :
              response \in BatchResponses(h.route, assets)}

\* GET without a symbol, one turn of the loop over the watch list
GetBatch ==
  /\ handler.route \in Routes
  /\ handler.pc \in {"received", "analysing"}
  /\ handler.batch
  /\ \E feed \in BatchFeeds(handler.route) :
       handler' \in BatchTurn(handler, WatchList(handler.route)[handler.i],
                              Len(WatchList(handler.route)), feed,
                              analyzeSymbol(handler.route,
                                            WatchList(handler.route)[handler.i].symbol,
                                            WatchList(handler.route)[handler.i].name,
                                            feed))
  /\ UNCHANGED <<analysisVars, fetcher>>

\* GET /api/recommendations, one asset class at a time: the sub-request of
\* a selected class inside its try/catch; after the third class the filter,
\* the sort, the top 20 and the response
GetRecommendations ==
  /\ handler.route = "recommendations"
  /\ handler.pc \in {"received", "fetching"}
  /\ LET class == AssetClasses[handler.class]
         selected == Selected(handler.assetType, class)
     IN  \E outcome \in IF selected THEN SubRequestOutcomes(class.route) ELSE {FetchThrew} :
           LET allAssets == IF selected THEN handler.allAssets \o AssetsOf(outcome)
                            ELSE handler.allAssets
               fetches == IF selected
                          THEN Append(handler.fetches,
                                      [type |-> class.type,
                                       ok |-> ~outcome.threw /\ IsOk(outcome.response)])
                          ELSE handler.fetches
           IN  IF handler.class < Len(AssetClasses)
               THEN handler' = [handler EXCEPT !.pc = "fetching", !.class = @ + 1,
                                               !.allAssets = allAssets,
                                               !.fetches = fetches]
               ELSE \E response \in RecommendationResponses(allAssets) :
                      handler' = [handler EXCEPT !.pc = "done", !.class = @ + 1,
                                                 !.allAssets = allAssets,
                                                 !.fetches = fetches,
                                                 !.response = response]
  /\ UNCHANGED <<analysisVars, fetcher>>

RouteNext ==
  \/ GetSingle
  \/ GetBatch
  \/ GetRecommendations

RouteSpec == RouteInit /\ [][RouteNext]_vars

\* Date.now() has moved on by a minute
Tick ==
  /\ fetcher.provider \in Providers
  /\ fetcher.now < MaxMinutes * ClockStep
  /\ fetcher' = [fetcher EXCEPT !.now = @ + ClockStep]
  /\ UNCHANGED <<analysisVars, handler>>

\* fetchIndianStockData(symbol) / fetchCryptoData(coinId, days) /
\* fetchUSStockData(symbol) is called: the cache lookup and what follows
\* it up to the first await
FetchBegin ==
  /\ fetcher.provider \in Providers
  /\ fetcher.call.pc \in {"idle", "returned", "threw"}
  /\ \E key \in CacheKeys :
       fetcher' = [fetcher EXCEPT !.call =
                     BeginCall(fetcher.provider, fetcher.hasApiKey, key,
                               fetcher.cache[key], fetcher.now)]
  /\ UNCHANGED <<analysisVars, handler>>

\* the provider request under way is answered (or axios gives up): the next
\* request of the attempt, or the rest of the try block and the catch
ProviderAnswers ==
  /\ fetcher.provider \in Providers
  /\ fetcher.call.pc = "requesting"
  /\ \E payload \in Payloads :
       IF AsksForVolumes(fetcher.provider, fetcher.call.request, payload)
       THEN fetcher' = [fetcher EXCEPT !.call.request = 2,
                                       !.call.requests = @ + 1,
                                       !.call.held = payload.closes]
       ELSE fetcher' =
              [fetcher EXCEPT
                 !.cache = CacheSet(@, fetcher.call.key,
                                    Settle(fetcher.provider, fetcher.call.request,
                                           fetcher.call.held, payload),
                                    fetcher.now),
                 !.call = EndAttempt(fetcher.provider, @,
                                     Settle(fetcher.provider, fetcher.call.request,
                                            fetcher.call.held, payload))]
  /\ UNCHANGED <<analysisVars, handler>>

\* await new Promise(resolve => setTimeout(resolve, 1000)) is over: the loop
\* of fetchIndianStockData starts the next attempt
WaitElapsed ==
  /\ fetcher.provider \in Providers
  /\ fetcher.call.pc = "waiting"
  /\ fetcher' = [fetcher EXCEPT !.call.pc = "requesting",
                                 !.call.attempt = @ + 1,
                                 !.call.request = 1,
                                 !.call.requests = @ + 1]
  /\ UNCHANGED <<analysisVars, handler>>

FetchNext ==
  \/ Tick
  \/ FetchBegin
  \/ ProviderAnswers
  \/ WaitElapsed

FetchSpec == FetchInit /\ [][FetchNext]_vars

\* the module of fetchIndianStockData alone; its request ends (axios is given
\* timeout: 10000) and the timer of its wait fires
IndiaFetchInit == FetchInit /\ fetcher.provider = "india" /\ fetcher.hasApiKey

IndiaFetchSpec ==
  /\ IndiaFetchInit
  /\ [][FetchNext]_vars
  /\ WF_vars(ProviderAnswers)
  /\ WF_vars(WaitElapsed)

----------------------------------------------------------------------------
(* Properties *)

\* a number within [0, 100]: finite, not NaN
InRange0To100(x) == IsFinite(x) /\ Le(R(0), x) /\ Le(x, R(100))

\* C1: calculateTechnicalIndicators fails with the insufficient-data error on
\* every series of fewer than 50 bars, and on a series of 50 or more bars it
\* does not fail but yields an indicator bundle.
C1_InsufficientDataIffShort ==
  last.fn = "calculateTechnicalIndicators" =>
    IF Len(series) < 50
    THEN ~last.value.ok /\ last.value.error = "InsufficientData"
    ELSE last.value.ok /\ indicators = last.value.value

\* a series of exactly 50 bars has been accepted
C1_Witness ==
  /\ last.fn = "calculateTechnicalIndicators"
  /\ Len(series) = 50
  /\ last.value.ok

\* C2: in the bundle of a series of 50 to 199 bars SMA200 equals SMA50, the
\* mean of the last 50 closes; from 200 bars on SMA200 is the mean of the
\* last 200 closes.  (SMA50 is available in every bundle, so the last close
\* never stands in for SMA200.)
C2_Sma200Fallback ==
  (last.fn = "calculateTechnicalIndicators" /\ last.value.ok) =>
    LET n == Len(series)
        sma == last.value.value.sma
        MeanOfLast(k) == Frac(SumRange(Closes(series), n - k + 1, n), k)
    IN  IF n < 200
        THEN sma.sma200 = sma.sma50 /\ sma.sma50 = MeanOfLast(50)
        ELSE sma.sma200 = MeanOfLast(200)

\* a bundle of a series shorter than 200 bars whose SMA200 is the SMA50 and
\* not the last close
C2_Witness ==
  /\ last.fn = "calculateTechnicalIndicators"
  /\ last.value.ok
  /\ Len(series) < 200
  /\ last.value.value.sma.sma200 = last.value.value.sma.sma50
  /\ last.value.value.sma.sma200 # R(series[Len(series)].close)

\* C3: calculateTechnicalIndicators and then analyzeTrend on the 60-bar
\* series whose closes rise by 1 per bar from 100, with volume 1000 on every
\* bar, reports direction = uptrend.
C3_RisingSixtyBarsUptrend ==
  (/\ series = SeriesOf(60, 100, 1, <<>>, FlatVolume)
   /\ last.fn = "analyzeTrend"
   /\ last.bundle = calculateTechnicalIndicators(series, lib).value)
    => last.value.direction = "uptrend"

\* C4: analyzeTrend reports uptrend iff lastClose > SMA20 > SMA50 > SMA200,
\* downtrend iff lastClose < SMA20 < SMA50 < SMA200 and sideways in every
\* other case (any equality included); the direction is one of the three.
C4_DirectionIffStrictOrdering ==
  last.fn = "analyzeTrend" =>
    LET lastClose == R(series[Len(series)].close)
        sma == last.bundle.sma
        direction == last.value.direction
        rising == /\ Gt(lastClose, sma.sma20)
                  /\ Gt(sma.sma20, sma.sma50)
                  /\ Gt(sma.sma50, sma.sma200)
        falling == /\ Lt(lastClose, sma.sma20)
                   /\ Lt(sma.sma20, sma.sma50)
                   /\ Lt(sma.sma50, sma.sma200)
    IN  /\ direction \in {"uptrend", "downtrend", "sideways"}
        /\ direction = "uptrend" <=> rising
        /\ direction = "downtrend" <=> falling
        /\ direction = "sideways" <=> (~rising /\ ~falling)

\* the last close equals SMA20 above SMA50 above SMA200: sideways
C4_Witness ==
  /\ last.fn = "analyzeTrend"
  /\ R(series[Len(series)].close) = last.bundle.sma.sma20
  /\ Gt(last.bundle.sma.sma20, last.bundle.sma.sma50)
  /\ Gt(last.bundle.sma.sma50, last.bundle.sma.sma200)
  /\ last.value.direction = "sideways"

\* C5: for every bundle and every series of at least one bar with positive
\* closes, the six numbers calculateMomentumScore returns (score, shortTerm,
\* longTerm, breakdown.technical, breakdown.trend, breakdown.volume) are
\* finite numbers within [0, 100], also when Bollinger upper = lower.
C5_MomentumScoresInRange ==
  last.fn = "calculateMomentumScore" =>
    /\ InRange0To100(last.value.score)
    /\ InRange0To100(last.value.shortTerm)
    /\ InRange0To100(last.value.longTerm)
    /\ InRange0To100(last.value.breakdown.technical)
    /\ InRange0To100(last.value.breakdown.trend)
    /\ InRange0To100(last.value.breakdown.volume)

\* C6: OBV is the sum, over the bars from the second to the last, of the
\* bar's volume taken positively when its close is above the previous close,
\* negatively when below and not at all on a tie; on strictly increasing
\* closes it is the sum of the volumes of bars 2..n.
C6_OnBalanceVolume ==
  (last.fn = "calculateTechnicalIndicators" /\ last.value.ok) =>
    LET n == Len(series)
        signed == [i \in 1..(n - 1) |->
                     IF series[i + 1].close > series[i].close THEN series[i + 1].volume
                     ELSE IF series[i + 1].close < series[i].close
                     THEN 0 - series[i + 1].volume
                     ELSE 0]
        increasing == \A i \in 1..(n - 1) : series[i + 1].close > series[i].close
        obv == last.value.value.obv
    IN  /\ obv = R(SumRange(signed, 1, n - 1))
        /\ increasing => obv = R(SumRange(Volumes(series), 2, n))

\* 60 rising bars of volume 1000: OBV = 59000
C6_Witness ==
  /\ last.fn = "calculateTechnicalIndicators"
  /\ last.value.ok
  /\ Len(series) = 60
  /\ \A i \in 1..59 : series[i + 1].close > series[i].close /\ series[i].volume = 1000
  /\ last.value.value.obv = R(59000)

C8_Crossover ==
  (last.fn = "analyzeTrend" /\ Len(series) >= 2) =>
    LET ema == last.bundle.ema
        truncated == Closes(SubSeq(series, 1, Len(series) - 1))
        EmaOf(period) == IF Len(truncated) >= period
                         THEN EMACalculate(truncated, period).last
                         ELSE R(truncated[Len(truncated)])
        bullish == Gt(ema.ema12, ema.ema26) /\ Le(EmaOf(12), EmaOf(26))
        bearish == Lt(ema.ema12, ema.ema26) /\ Ge(EmaOf(12), EmaOf(26))
        crossover == last.value.movingAverageCrossover
    IN  /\ crossover = "bullish" <=> bullish
        /\ crossover = "bearish" <=> bearish
        /\ crossover = "none" <=> (~bullish /\ ~bearish)

\* EMA12 rises above EMA26 at the last bar of an analysed series: bullish
C8_Witness ==
  /\ last.fn = "analyzeTrend"
  /\ Len(series) >= 50
  /\ last.bundle = calculateTechnicalIndicators(series, lib).value
  /\ Gt(last.bundle.ema.ema12, last.bundle.ema.ema26)
  /\ last.value.movingAverageCrossover = "bullish"

\* C9: on a series of at least 2 bars the strength is within [0, 100]: 25
\* when the direction is sideways, otherwise priceChangePct * 2 +
\* consistency * 0.5 clamped to [0, 100], both taken over the trailing 20
\* closes.
C9_Strength ==
  (last.fn = "analyzeTrend" /\ Len(series) >= 2) =>
    LET n == Len(series)
        from == IF n > 20 THEN n - 20 ELSE 0
        m == n - from
        w == [i \in 1..m |-> series[from + i].close]
        up == last.value.direction = "uptrend"
        priceChangePct == IF up THEN Frac((w[m] - w[1]) * 100, w[1])
                          ELSE Frac((w[1] - w[m]) * 100, w[1])
        steps == Cardinality({i \in 2..m : IF up THEN w[i] >= w[i - 1]
                                                 ELSE w[i] <= w[i - 1]})
        consistency == Frac(steps * 100, m - 1)
        raw == Add(Mul(priceChangePct, R(2)), Mul(consistency, Frac(1, 2)))
        clamped == IF Lt(raw, R(0)) THEN R(0)
                   ELSE IF Gt(raw, R(100)) THEN R(100) ELSE raw
        strength == last.value.strength
    IN  /\ InRange0To100(strength)
        /\ IF last.value.direction = "sideways" THEN strength = R(25)
           ELSE strength = clamped

\* an uptrend whose strength is neither the sideways value nor saturated
C9_Witness ==
  /\ last.fn = "analyzeTrend"
  /\ Len(series) >= 2
  /\ last.value.direction = "uptrend"
  /\ Lt(R(25), last.value.strength)
  /\ Lt(last.value.strength, R(100))

\* C10: for a bundle with RSI, Stochastic %K and ADX within [0, 100] and MACD
\* histogram = line - signal, each of the seven sub-scores of
\* calculateMomentumScore is within [0, 100]; for RSI within [30, 70] the RSI
\* score is within [0, 100] and the same at RSI and at 100 - RSI.
C10_SubScoresInRange ==
  (/\ last.fn = "calculateMomentumScore"
   /\ InRange0To100(last.bundle.rsi)
   /\ InRange0To100(last.bundle.stochastic.k)
   /\ InRange0To100(last.bundle.adx)
   /\ last.bundle.macd.histogram = Sub(last.bundle.macd.MACD, last.bundle.macd.signal))
    => LET sub == SubScores(last.bundle, series)
           rsi == last.bundle.rsi
       IN  /\ InRange0To100(sub.rsi)
           /\ InRange0To100(sub.macd)
           /\ InRange0To100(sub.sma)
           /\ InRange0To100(sub.bb)
           /\ InRange0To100(sub.stochastic)
           /\ InRange0To100(sub.adx)
           /\ InRange0To100(sub.volume)
           /\ (Ge(rsi, R(30)) /\ Le(rsi, R(70))) =>
                RsiScore(rsi) = RsiScore(Sub(R(100), rsi))

\* C11: technicalScore = 0.15 RSI + 0.20 MACD + 0.20 SMA + 0.10 Bollinger +
\* 0.10 Stochastic + 0.10 ADX + 0.15 Volume (weights summing to 1), score =
\* clamp(0.6 technicalScore + 0.25 shortTermScore + 0.15 longTermScore), and
\* the breakdown holds the clamped technicalScore, ADX score and volume score.
C11_WeightedCombination ==
  last.fn = "calculateMomentumScore" =>
    LET sub == SubScores(last.bundle, series)
        Clamp(x) == IF IsNaN(x) THEN NaN
                    ELSE IF Lt(x, R(0)) THEN R(0)
                    ELSE IF Gt(x, R(100)) THEN R(100) ELSE x
        weighted == Add(Add(Add(Mul(R(15), sub.rsi), Mul(R(20), sub.macd)),
                            Add(Mul(R(20), sub.sma), Mul(R(10), sub.bb))),
                        Add(Add(Mul(R(10), sub.stochastic), Mul(R(10), sub.adx)),
                            Mul(R(15), sub.volume)))
        technicalScore == Div(weighted, R(15 + 20 + 20 + 10 + 10 + 10 + 15))
        overall == Div(Add(Mul(R(60), technicalScore),
                           Add(Mul(R(25), ShortTermScore(series)),
                               Mul(R(15), LongTermScore(series)))), R(100))
    IN  /\ 15 + 20 + 20 + 10 + 10 + 10 + 15 = 100
        /\ last.value.score = Clamp(overall)
        /\ last.value.breakdown.technical = Clamp(technicalScore)
        /\ last.value.breakdown.trend = Clamp(sub.adx)
        /\ last.value.breakdown.volume = Clamp(sub.volume)

\* a score strictly inside the range from sub-scores that are not all equal
C11_Witness ==
  /\ last.fn = "calculateMomentumScore"
  /\ Lt(R(0), last.value.breakdown.technical)
  /\ Lt(last.value.breakdown.technical, R(100))
  /\ Lt(R(0), last.value.score)
  /\ Lt(last.value.score, R(100))
  /\ SubScores(last.bundle, series).rsi # SubScores(last.bundle, series).macd

\* C12: shortTerm = 50 + clamp(pct * 5, -50, 50) with pct the percent change
\* of the last close against the close 20 bars before the last bar, longTerm
\* = 50 + clamp(pct * 2, -50, 50) against the close 50 bars before the last
\* bar; a series too short to have such a bar uses its earliest bar.
C12_ShortAndLongTerm ==
  last.fn = "calculateMomentumScore" =>
    LET n == Len(series)
        lastClose == series[n].close
        BarsBefore(k) == series[IF n - k >= 1 THEN n - k ELSE 1].close
        Pct(k) == Frac((lastClose - BarsBefore(k)) * 100, BarsBefore(k))
        ClampTo50(x) == IF Lt(x, R(-50)) THEN R(-50)
                        ELSE IF Gt(x, R(50)) THEN R(50) ELSE x
    IN  /\ last.value.shortTerm = Add(R(50), ClampTo50(Mul(Pct(20), R(5))))
        /\ last.value.longTerm = Add(R(50), ClampTo50(Mul(Pct(50), R(2))))

C14_DegenerateInputGuarded ==
  last.fn = "analyzeFundamentals" =>
    LET n == Len(series)
        older == Volumes(SubSeq(series, IF n > 40 THEN n - 39 ELSE 1,
                                IF n > 20 THEN n - 20 ELSE 0))
        degenerate == Len(older) = 0 \/ SumRange(older, 1, Len(older)) = 0
    IN  /\ degenerate => "volumeTrend" \notin DOMAIN last.value
        /\ "averageVolume" \in DOMAIN last.value => IsFinite(last.value.averageVolume)

\* C15: calculateFundamentalScore returns clamp(50 + v + p + b, 0, 100) with
\* v = +15 / -15 / 0 for increasing / decreasing / stable volume, p = +10 for
\* 0 < P/E < 10, -10 for P/E > 25, else 0, and b = +10 for 0 < P/B < 1, -10
\* for P/B > 3, else 0 (absent values and the exact thresholds give 0).
C15_FundamentalScore ==
  last.fn = "calculateFundamentalScore" =>
    LET f == last.bundle
        Between(x, lo, hi) == x # Undefined /\ Lt(R(lo), x) /\ Lt(x, R(hi))
        Above(x, lo) == x # Undefined /\ Gt(x, R(lo))
        v == CASE f.volumeTrend = "increasing" -> 15
               [] f.volumeTrend = "decreasing" -> -15
               [] f.volumeTrend = "stable" -> 0
        p == IF Between(f.peRatio, 0, 10) THEN 10
             ELSE IF Above(f.peRatio, 25) THEN -10 ELSE 0
        b == IF Between(f.priceToBook, 0, 1) THEN 10
             ELSE IF Above(f.priceToBook, 3) THEN -10 ELSE 0
        total == 50 + v + p + b
    IN  last.value = R(IF total < 0 THEN 0 ELSE IF total > 100 THEN 100 ELSE total)

\* a P/E of exactly 10 adds nothing
C15_Witness ==
  /\ last.fn = "calculateFundamentalScore"
  /\ last.bundle.peRatio = R(10)
  /\ last.bundle.priceToBook = Undefined
  /\ last.bundle.volumeTrend = "increasing"
  /\ last.value = R(65)

\* C16: reversalSignal is true exactly when, over the trailing 14 closes,
\* (last > first and RSI > 70 and histogram < 0) or (last <= first and
\* RSI < 30 and histogram > 0); hence false for RSI within [30, 70] and for
\* a histogram of 0.
C16_ReversalSignal ==
  last.fn = "analyzeTrend" =>
    LET n == Len(series)
        first == series[IF n > 14 THEN n - 13 ELSE 1].close
        rsi == last.bundle.rsi
        histogram == last.bundle.macd.histogram
        topping == series[n].close > first /\ Gt(rsi, R(70)) /\ Lt(histogram, R(0))
        bottoming == series[n].close <= first /\ Lt(rsi, R(30)) /\ Gt(histogram, R(0))
    IN  /\ last.value.reversalSignal \in BOOLEAN
        /\ last.value.reversalSignal <=> (topping \/ bottoming)
        /\ (Ge(rsi, R(30)) /\ Le(rsi, R(70))) => ~last.value.reversalSignal
        /\ histogram = R(0) => ~last.value.reversalSignal

\* a flat 14-bar window (last = first) with RSI < 30 and a positive histogram
C16_Witness ==
  /\ last.fn = "analyzeTrend"
  /\ Len(series) >= 14
  /\ series[Len(series)].close = series[Len(series) - 13].close
  /\ Lt(last.bundle.rsi, R(30))
  /\ Gt(last.bundle.macd.histogram, R(0))
  /\ last.value.reversalSignal


C19_FailureDoesNotAbortBatch ==
  handler.pc = "done" /\ handler.route \in Routes /\ handler.batch =>
    LET watchList == WatchList(handler.route)
        calls == handler.calls
        returned == ResponseAssets(handler.response.body)
        succeeded == {k \in 1..Len(calls) : calls[k].ok}
    IN  /\ Len(calls) = Len(watchList)
        /\ \A k \in 1..Len(calls) : calls[k].symbol = watchList[k].symbol
        /\ Len(returned) = Cardinality(succeeded)
        /\ \A k \in succeeded :
             Cardinality({j \in 1..Len(returned) : returned[j].name = watchList[k].name}) = 1
        /\ \A j \in 1..Len(returned) :
             \E k \in succeeded : returned[j].name = watchList[k].name

\* a batch whose first analysis failed and whose last failure was a
\* computation error, answered with the assets of the entries that succeeded
C19_Witness ==
  /\ handler.pc = "done"
  /\ handler.route = "india"
  /\ handler.batch
  /\ ~handler.calls[1].ok
  /\ handler.calls[2].ok
  /\ ~handler.calls[3].ok
  /\ handler.lastError = "computation"
  /\ handler.response.status = 200
  /\ Len(handler.response.body.assets) = 3


\* C20: when every symbol analysis fails the caller receives a result that
\* says all analyses failed: a batch of an asset-class route in which no
\* analysis succeeded is not answered with a success that merely lists no
\* assets, and the recommendations endpoint answers differently when every
\* sub-request it made failed and when the request selected no asset class.
C20_AllFailedIsReported ==
  /\ handler.pc = "done" /\ handler.route \in Routes /\ handler.batch
       /\ (\A k \in 1..Len(handler.calls) : ~handler.calls[k].ok)
     => /\ ~IsOk(handler.response)
        /\ "error" \in DOMAIN handler.response.body
  /\ handler.pc = "done" /\ handler.route = "recommendations"
       /\ Len(handler.fetches) > 0
       /\ (\A k \in 1..Len(handler.fetches) : ~handler.fetches[k].ok)
     => handler.response \notin RecommendationResponses(<<>>)



\* the asset the latest analysis returned: the one of a single-symbol
\* response, the one pushed last in a batch
LatestAsset ==
  IF handler.batch THEN handler.assets[Len(handler.assets)]
  ELSE handler.response.body.asset

\* an analysis route has just analysed a symbol with success
AnalysedWithSuccess ==
  /\ handler.route \in Routes
  /\ Len(handler.calls) > 0
  /\ handler.calls[Len(handler.calls)].ok

\* C21: when the quote fetch of a symbol fails, every analysis route takes
\* the asset's currentPrice from the close of the last bar, its priceChange
\* from the last two bars (last close minus previous close) and its
\* priceChangePercent as that difference in percent of the previous close
\* (0 when the previous close is not positive).
C21_QuoteFallback ==
  AnalysedWithSuccess /\ handler.feed.quote.failed =>
    LET priceData == handler.feed.series
        latestClose == R(priceData[Len(priceData)].close)
        previousClose == R(priceData[Len(priceData) - 1].close)
        difference == Sub(latestClose, previousClose)
    IN  /\ LatestAsset.currentPrice = latestClose
        /\ LatestAsset.priceChange = difference
        /\ LatestAsset.priceChangePercent =
             (IF Gt(previousClose, R(0))
              THEN Mul(Div(difference, previousClose), R(100))
              ELSE R(0))


\* the scoring fields of an asset are those computed from its analyses, the
\* recommendation from the two scores it carries
Scored(asset) ==
  /\ asset.overallScore = calculateOverallScore(asset)
  /\ asset.confidence = calculateConfidence(asset)
  /\ asset.recommendation = getRecommendation(asset.overallScore, asset.confidence)

\* the assets the handler of an analysis route has appended to its list, and
\* those of its response
Appended(h) == IF h.route \in Routes THEN h.assets ELSE <<>>

Returned(h) ==
  IF h.route \in Routes /\ h.response # NoResponse /\ h.response.status = 200
  THEN ResponseAssets(h.response.body)
  ELSE <<>>

Occurrences(asset, assets) == Cardinality({k \in 1..Len(assets) : assets[k] = asset})

\* C23: the recommendations endpoint returns a ranked list: at most 20
\* recommendations, in non-increasing order of overallScore across all the
\* asset classes fetched, every one of them an asset that was fetched, no
\* omitted asset with a higher overallScore than a returned one, and the
\* counters satisfy total <= filtered <= totalAnalyzed, total = min(20, filtered).
C23_RankedRecommendations ==
  handler.route = "recommendations" /\ handler.pc = "done"
  /\ handler.response.status = 200 =>
    LET body == handler.response.body
        returned == [k \in 1..Len(body.recommendations) |->
                       body.recommendations[k].asset]
        score(asset) == ToNumber(asset.overallScore)
    IN  /\ Len(returned) <= 20
        /\ \A k \in 1..(Len(returned) - 1) :
             Ge(score(returned[k]), score(returned[k + 1]))
        /\ \A k \in 1..Len(returned) :
             Occurrences(returned[k], returned) <= Occurrences(returned[k], handler.allAssets)
        /\ \A j \in 1..Len(handler.allAssets) :
             Occurrences(handler.allAssets[j], returned)
               < Occurrences(handler.allAssets[j], handler.allAssets)
             => \A k \in 1..Len(returned) :
                  ~Gt(score(handler.allAssets[j]), score(returned[k]))
        /\ body.total = Len(returned)
        /\ body.totalAnalyzed = Len(handler.allAssets)
        /\ body.total <= body.filtered
        /\ body.filtered <= body.totalAnalyzed
        /\ body.total = (IF body.filtered < 20 THEN body.filtered ELSE 20)

\* the three asset classes answered with their whole watch lists, pushed
\* class by class with the scores out of order, and 20 recommendations are
\* returned
C23_Witness ==
  /\ handler.route = "recommendations"
  /\ handler.pc = "done"
  /\ handler.assetType = NoType
  /\ handler.response.status = 200
  /\ handler.response.body.total = 20
  /\ \E j \in 1..19 :
       Lt(ToNumber(handler.allAssets[j].overallScore),
          ToNumber(handler.allAssets[j + 1].overallScore))
  /\ \E k \in 1..19 :
       handler.response.body.recommendations[k].asset.type
         # handler.response.body.recommendations[k + 1].asset.type


\* C24: each provider cache is a key -> (series, timestamp) store with a
\* time-to-live of 5 minutes: a fetch for a key whose entry is younger than
\* that returns the stored series without a provider request, and an entry
\* whose age has reached it is not served: the fetch makes a new provider
\* request and returns only a series it has just stored.
C24_CacheTimeToLive ==
  fetcher.provider \in Providers =>
    LET call == fetcher.call
        found == call.found
    IN  /\ \A key \in CacheKeys :
             fetcher.cache[key].present =>
               /\ DOMAIN fetcher.cache[key] = {"present", "data", "timestamp"}
               /\ fetcher.cache[key].timestamp <= fetcher.now
        /\ call.pc # "idle" /\ found.present /\ call.began - found.timestamp < 300000 =>
             /\ call.pc = "returned"
             /\ call.result = found.data
             /\ call.requests = 0
        /\ call.pc # "idle" /\ found.present /\ call.began - found.timestamp >= 300000 =>
             /\ call.requests >= 1
             /\ call.pc = "returned" =>
                  /\ fetcher.cache[call.key].timestamp >= call.began
                  /\ fetcher.cache[call.key].data = call.result

\* a fetch found an entry of exactly five minutes, asked the provider and
\* has returned the series it stored in place of the entry
C24_Witness ==
  /\ fetcher.provider \in Providers
  /\ fetcher.call.pc = "returned"
  /\ fetcher.call.found.present
  /\ fetcher.call.began - fetcher.call.found.timestamp = 300000
  /\ fetcher.call.requests >= 1
  /\ fetcher.call.result # fetcher.call.found.data


\* what holds of a call of fetchIndianStockData at every moment
AtMostTwoAttempts ==
  LET call == fetcher.call
  IN  /\ call.requests <= 2
      /\ call.requests > 0 => call.requests = call.attempt + 1
      /\ call.attempt >= 1 => Len(call.failures) >= call.attempt
      /\ call.pc = "returned" => call.requests = Len(call.failures) + (IF call.requests = 0 THEN 0 ELSE 1)
      /\ call.pc = "threw" =>
           /\ call.requests = 2
           /\ Len(call.failures) = 2
           /\ call.error = <<"Failed to fetch Indian stock data", call.failures[2]>>
      /\ call.pc = "waiting" => call.attempt = 0 /\ Len(call.failures) = 1

\* C25: a call of fetchIndianStockData makes at most 2 provider attempts: it
\* returns on the first attempt that succeeds without a further attempt,
\* starts the second attempt only after the first has failed and the wait is
\* over, throws after two failed attempts an error that carries the message
\* of the last failure, and always ends with a series or with an error.
C25_AtMostTwoAttempts ==
  /\ []AtMostTwoAttempts
  /\ [][fetcher'.call.requests > fetcher.call.requests /\ fetcher.call.requests > 0
          => fetcher.call.pc = "waiting" /\ Len(fetcher.call.failures) = 1]_vars
  /\ (fetcher.call.pc \in {"requesting", "waiting"}
        ~> fetcher.call.pc \in {"returned", "threw"})

\* both attempts have failed, for different reasons, and the call has thrown
\* the error with the message of the second
C25_Witness ==
  /\ fetcher.provider = "india"
  /\ fetcher.call.pc = "threw"
  /\ Len(fetcher.call.failures) = 2
  /\ fetcher.call.failures[1] # fetcher.call.failures[2]
  /\ fetcher.call.error[2] = fetcher.call.failures[2]


\* C26: a failed price-series fetch (provider error, rate limit, invalid or
\* empty payload, no bar with close > 0) leaves the cache as it was:
\* fetchCryptoData and fetchIndianStockData write an entry only when they
\* return a validated series that is not empty, so a failure never
\* overwrites or removes an entry and no empty series is ever in the cache.
C26_FailureLeavesCacheUnchanged ==
  [][fetcher.provider \in {"india", "crypto"} =>
       /\ Len(fetcher'.call.failures) > Len(fetcher.call.failures)
            => fetcher'.cache = fetcher.cache
       /\ fetcher'.call.pc = "threw" => fetcher'.cache = fetcher.cache
       /\ fetcher'.cache # fetcher.cache =>
            /\ fetcher'.call.pc = "returned"
            /\ fetcher'.cache =
                 [fetcher.cache EXCEPT ![fetcher.call.key] =
                    Entry(fetcher'.call.result, fetcher.now)]
       /\ \A key \in CacheKeys :
            fetcher'.cache[key].present =>
              /\ Len(fetcher'.cache[key].data) > 0
              /\ \A k \in 1..Len(fetcher'.cache[key].data) :
                   fetcher'.cache[key].data[k] > 0]_vars

\* a fetch that found an expired entry has failed and thrown, and the entry
\* is still the one it found
C26_Witness ==
  /\ fetcher.provider \in {"india", "crypto"}
  /\ fetcher.call.pc = "threw"
  /\ fetcher.call.found.present
  /\ fetcher.call.requests >= 2
  /\ fetcher.cache[fetcher.call.key] = fetcher.call.found


\* C27: a quote fetch that fails or does not answer never fails the analysis
\* of a symbol: in every analysis route a series fetched with enough bars
\* for the indicators gives an asset whether the quote call resolves,
\* rejects or (India route) loses the race against the timeout, and an
\* analysis fails only for the price series (provider failure, too few
\* bars) or for an error of the analysis itself.
C27_QuoteNeverFailsAnalysis ==
  handler.route \in Routes /\ Len(handler.calls) > 0 =>
    LET analysed == handler.calls[Len(handler.calls)]
        feed == handler.feed
    IN  /\ ~feed.failed /\ Len(feed.series) >= MinDataPoints => analysed.ok
        /\ ~analysed.ok =>
             /\ handler.lastError \in {"provider", "insufficient", "computation"}
             /\ handler.lastError = "provider" <=> feed.failed
             /\ ~feed.failed => Len(feed.series) < MinDataPoints

\* the quote call of the India route has lost the race against the timeout
\* and the asset is returned, price and change taken from the series
C27_Witness ==
  /\ handler.route = "india"
  /\ Len(handler.calls) > 0
  /\ handler.calls[Len(handler.calls)].ok
  /\ handler.feed.quote.failed
  /\ ~handler.feed.quote.settled
  /\ LatestAsset.currentPrice = R(handler.feed.series[Len(handler.feed.series)].close)


\* C28: for every series of 50 to 199 bars, analyzeTrend applied to the
\* bundle calculateTechnicalIndicators computed from that series returns
\* direction = sideways and strength = 25 whatever the prices are, SMA200
\* being equal to SMA50 in that bundle.
C28_SidewaysBelowTwoHundredBars ==
  /\ last.fn = "analyzeTrend"
  /\ Len(series) >= 50
  /\ Len(series) < 200
  /\ last.bundle = calculateTechnicalIndicators(series, lib).value
  => /\ last.bundle.sma.sma200 = last.bundle.sma.sma50
     /\ last.value.direction = "sideways"
     /\ last.value.strength = R(25)

\* a series of 60 bars with the last close above SMA20 above SMA50, reported
\* as sideways with strength 25
C28_Witness ==
  /\ last.fn = "analyzeTrend"
  /\ Len(series) = 60
  /\ last.bundle = calculateTechnicalIndicators(series, lib).value
  /\ Gt(R(series[Len(series)].close), last.bundle.sma.sma20)
  /\ Gt(last.bundle.sma.sma20, last.bundle.sma.sma50)
  /\ last.value.direction = "sideways"
  /\ last.value.strength = R(25)


\* C29: no route produces an asset from a series of fewer than 50 bars. The
\* routes guard at 30 (India), 50 (crypto) and 20 (US) bars, and every route
\* then calls calculateTechnicalIndicators on the full series, which throws
\* below 50 bars: the analysis of such a series fails, by the route's guard
\* when the series is below it and by the indicators otherwise; in batch
\* mode nothing is appended for the symbol, in single-symbol mode the
\* response is the 500 of the route.
C29_NoAssetBelowFiftyBars ==
  /\ handler.route \in Routes
  /\ Len(handler.calls) > 0
  /\ ~handler.feed.failed
  /\ Len(handler.feed.series) < 50
  => /\ ~handler.calls[Len(handler.calls)].ok
     /\ handler.lastError =
          (IF Len(handler.feed.series) < RouteMinimum(handler.route)
           THEN "insufficient" ELSE "computation")
     /\ handler.batch =>
          Len(handler.assets) =
            Cardinality({k \in 1..Len(handler.calls) : handler.calls[k].ok})
     /\ ~handler.batch =>
          /\ handler.response = RouteErrorResponse(handler.route)
          /\ handler.response.status = 500

\* a single-symbol request of the US route with 25 bars, which pass the
\* route's guard at 20, has failed in the indicators and is answered with
\* the error
C29_Witness ==
  /\ handler.route = "us"
  /\ ~handler.batch
  /\ handler.pc = "done"
  /\ ~handler.feed.failed
  /\ Len(handler.feed.series) = 25
  /\ ~handler.calls[1].ok
  /\ handler.lastError = "computation"
  /\ handler.response.status = 500


\* C30: for every FundamentalData value calculateFundamentalScore returns a
\* multiple of 5 between 15 and 85 inclusive, and the value it returns is
\* the score before the final clamp to [0, 100], which never changes it.
C30_FundamentalScoreRange ==
  last.fn = "calculateFundamentalScore" =>
    /\ \E k \in 3..17 : last.value = R(5 * k)
    /\ last.value = R(FundamentalScoreBeforeClamp(last.bundle))

\* decreasing volume, a P/E above 25 and a price-to-book above 3: the lowest
\* score, 15
C30_Witness ==
  /\ last.fn = "calculateFundamentalScore"
  /\ last.bundle.volumeTrend = "decreasing"
  /\ last.bundle.peRatio # Undefined
  /\ Gt(last.bundle.peRatio, R(25))
  /\ last.bundle.priceToBook # Undefined
  /\ Gt(last.bundle.priceToBook, R(3))
  /\ last.value = R(15)
====
